---- MODULE Spec2Model ----
(***************************************************************************)
(* music-board: identity resolution and merge of catalog.json items.       *)
(*                                                                         *)
(* The catalog is the ordered list of items that every script loads into   *)
(* `byId = new Map(items.map(it => [it.id, it]))`, rewrites and stores     *)
(* back as `Array.from(byId.values())`.  The model keeps that list in      *)
(* Map insertion order: replacing a key keeps its position, a new key is   *)
(* appended.                                                               *)
(*                                                                         *)
(* Titles are sequences of one-character strings, so that trimming, case   *)
(* folding, prefix stripping and substring tests are computed.  Platform   *)
(* names, labels and ISRCs are strings drawn from small sets; their case   *)
(* folding is a table over those sets.                                     *)
(***************************************************************************)
EXTENDS Integers, Sequences, FiniteSets, TLC

\* ------------------------------------------------------------------------
\* Bounds of the model
\* ------------------------------------------------------------------------
MaxSteps == 2

\* the jobs handed to a limiter
MaxJobs == 3

\* clicks on "Export albums" and on "Cancel" that are followed, and the albums
\* the page lists
MaxExports == 2

MaxCancels == 1

MaxAlbums == 2

\* clicks on "Show more" that are followed
MaxMore == 2

\* ------------------------------------------------------------------------
\* Generic sequence helpers
\* ------------------------------------------------------------------------
Range(s) == {s[i] : i \in 1..Len(s)}

Min2(a, b) == IF a <= b THEN a ELSE b

\* Array.prototype.find / findIndex: index of the first element satisfying P, 0 if none
FirstIndex(s, P(_)) ==
  IF \E i \in 1..Len(s) : P(s[i])
  THEN CHOOSE i \in 1..Len(s) : P(s[i]) /\ \A j \in 1..(i - 1) : ~P(s[j])
  ELSE 0

\* Array.prototype.filter
RECURSIVE FilterSeq(_, _)
FilterSeq(s, S) ==
  IF s = <<>> THEN <<>>
  ELSE IF Head(s) \in S THEN <<Head(s)>> \o FilterSeq(Tail(s), S)
       ELSE FilterSeq(Tail(s), S)

\* Array.from(new Set(s)): first occurrences, in order
RECURSIVE Dedup(_)
Dedup(s) ==
  IF s = <<>> THEN <<>>
  ELSE LET r == Dedup(SubSeq(s, 1, Len(s) - 1))
           x == s[Len(s)]
       IN IF x \in Range(r) THEN r ELSE Append(r, x)

\* String.prototype.startsWith on character sequences
StartsWith(s, p) == Len(p) <= Len(s) /\ SubSeq(s, 1, Len(p)) = p

\* String.prototype.includes on character sequences
Includes(s, p) == \E i \in 0..(Len(s) - Len(p)) : SubSeq(s, i + 1, i + Len(p)) = p

\* String.prototype.slice(n)
SliceFrom(s, n) == SubSeq(s, Min2(n, Len(s)) + 1, Len(s))

\* ------------------------------------------------------------------------
\* Characters
\* ------------------------------------------------------------------------
IsSpace(c) == c \in {" "}

\* String.prototype.toLowerCase, per character of the modelled alphabet
LowerChar(c) ==
  CASE c = "A" -> "a"
    [] c = "B" -> "b"
    [] c = "C" -> "c"
    [] c = "M" -> "m"
    [] c = "FWA" -> "FWa"
    [] OTHER -> c

\* String.prototype.normalize("NFKC"), per character: a fullwidth form folds to
\* its ASCII character.  A non-ASCII character is written as a named token:
\* "FW(" is U+FF08, "FW)" U+FF09, "FW:" U+FF1A, "FW," U+FF0C, "FW!" U+FF01,
\* "FW?" U+FF1F, "FW;" U+FF1B, "FWA" U+FF21 and "FWa" U+FF41 (fullwidth A, a).
NfkcChar(c) ==
  CASE c = "FW(" -> "("
    [] c = "FW)" -> ")"
    [] c = "FW:" -> ":"
    [] c = "FW," -> ","
    [] c = "FW!" -> "!"
    [] c = "FW?" -> "?"
    [] c = "FW;" -> ";"
    [] c = "FWA" -> "A"
    [] c = "FWa" -> "a"
    [] OTHER -> c

MapChars(s, F(_)) == [i \in 1..Len(s) |-> F(s[i])]

Lower(s) == MapChars(s, LowerChar)

Nfkc(s) == MapChars(s, NfkcChar)

RECURSIVE TrimLeft(_)
TrimLeft(s) == IF s # <<>> /\ IsSpace(Head(s)) THEN TrimLeft(Tail(s)) ELSE s

RECURSIVE TrimRight(_)
TrimRight(s) ==
  IF s # <<>> /\ IsSpace(s[Len(s)]) THEN TrimRight(SubSeq(s, 1, Len(s) - 1)) ELSE s

\* String.prototype.trim
Trim(s) == TrimRight(TrimLeft(s))

\* ------------------------------------------------------------------------
\* normalizeKey of the DistroKid album importer
\* ------------------------------------------------------------------------
\* The character class of the regular expression: it is closed by the `]` that
\* follows the second `\\`, so it holds white space, the separators and quotes,
\* the round brackets, the backslash and `[`.
KeyClass ==
  {" ", "MIDDOT", "BULLET", "EMDASH", "ENDASH", "-", "_", "/", "\\", ":", "FW:",
   ",", "FW,", ".", "IDEOSTOP", "!", "?", "FW!", "FW?", "'", "\"", "LDQUO", "RDQUO",
   "LSQUO", "RSQUO", "(", ")", "FW(", "FW)", "["}

\* What follows the class in the pattern: the literal text {}<> and then `]+`
KeyTail == <<"{", "}", "<", ">">>

\* number of consecutive "]" at the start of s
RECURSIVE CountClose(_)
CountClose(s) == IF s # <<>> /\ Head(s) = "]" THEN 1 + CountClose(Tail(s)) ELSE 0

\* Length of the match of /[class]{}<>]+/ at the start of s, 0 if none
KeyMatchLen(s) ==
  IF /\ Len(s) >= 6
     /\ s[1] \in KeyClass
     /\ SubSeq(s, 2, 5) = KeyTail
     /\ s[6] = "]"
  THEN 5 + CountClose(SliceFrom(s, 5))
  ELSE 0

\* .replace(/.../g, ""): every match, left to right, is removed
RECURSIVE StripKeyMatches(_)
StripKeyMatches(s) ==
  IF s = <<>> THEN <<>>
  ELSE IF KeyMatchLen(s) > 0 THEN StripKeyMatches(SliceFrom(s, KeyMatchLen(s)))
       ELSE <<Head(s)>> \o StripKeyMatches(Tail(s))

normalizeKey(text) == StripKeyMatches(Lower(Trim(Nfkc(text))))

\* ------------------------------------------------------------------------
\* Strings that are not taken apart: platform names, labels, ISRCs
\* ------------------------------------------------------------------------
\* String.prototype.trim over the modelled spellings
StrTrim(s) ==
  CASE s = "Spotify " -> "Spotify"
    [] s = " " -> ""
    [] s = "L1 " -> "L1"
    [] OTHER -> s

\* String.prototype.toLowerCase over the modelled spellings
StrLower(s) ==
  CASE s = "Spotify" -> "spotify"
    [] s = "Spotify " -> "spotify "
    [] s = "Facebook" -> "facebook"
    [] s = "Instagram" -> "instagram"
    [] s = "YouTube" -> "youtube"
    [] s = "Link" -> "link"
    [] s = "Instagram / Facebook" -> "instagram / facebook"
    [] s = "NetEase Album" -> "netease album"
    [] s = "NetEase Song" -> "netease song"
    [] s = "NetEase Player" -> "netease player"
    [] s = "I1" -> "i1"
    [] s = "I2" -> "i2"
    [] OTHER -> s

\* String.prototype.toUpperCase over the modelled ISRC spellings
StrUpper(s) ==
  CASE s = "i1" -> "I1"
    [] s = "i2" -> "I2"
    [] OTHER -> s

\* .replace(/\s+/g, "") over the modelled spellings
StrNoSpace(s) ==
  CASE s = "instagram / facebook" -> "instagram/facebook"
    [] s = "netease album" -> "neteasealbum"
    [] s = "netease song" -> "neteasesong"
    [] s = "netease player" -> "neteaseplayer"
    [] s = "spotify " -> "spotify"
    [] s = " " -> ""
    [] OTHER -> s

platformKey(platform) == StrNoSpace(StrLower(StrTrim(platform)))

\* ------------------------------------------------------------------------
\* A JavaScript Map as the sequence of its entries, in insertion order
\* ------------------------------------------------------------------------
MapIndex(m, k) == FirstIndex(m, LAMBDA e : e.key = k)

MapHas(m, k) == MapIndex(m, k) # 0

MapGet(m, k) == m[MapIndex(m, k)].val

MapSet(m, k, v) ==
  IF MapHas(m, k) THEN [m EXCEPT ![MapIndex(m, k)] = [key |-> k, val |-> v]]
  ELSE Append(m, [key |-> k, val |-> v])

MapValues(m) == [i \in 1..Len(m) |-> m[i].val]

\* ------------------------------------------------------------------------
\* Link/Embed mergers
\* ------------------------------------------------------------------------
Link(platform, label, url) == [platform |-> platform, label |-> label, url |-> url]

Embed(platform, label, url, height) ==
  [platform |-> platform, label |-> label, url |-> url, height |-> height]

\* the IIFE `canonical` of the DistroKid mergeLinks
canonicalPlatform(l) ==
  IF platformKey(l.platform) = "facebook" THEN "instagram" ELSE StrTrim(l.platform)

looksDefaultLabel(label, platform) ==
  LET l == StrLower(StrTrim(label))
      p == StrLower(StrTrim(platform))
  IN IF l = "" THEN TRUE ELSE l = p \/ l = "link"

\* first loop of mergeLinks: the existing links, keyed by platform
RECURSIVE linksByPlatform(_, _)
linksByPlatform(byPlatform, existing) ==
  IF existing = <<>> THEN byPlatform
  ELSE LET l == Head(existing)
           canonical == canonicalPlatform(l)
           p == platformKey(canonical)
       IN IF p = "" THEN linksByPlatform(byPlatform, Tail(existing))
          ELSE linksByPlatform(MapSet(byPlatform, p, [l EXCEPT !.platform = canonical]),
                               Tail(existing))

\* second loop of mergeLinks: the incoming links fill the entry of their platform
RECURSIVE linksFillIncoming(_, _)
linksFillIncoming(byPlatform, incoming) ==
  IF incoming = <<>> THEN byPlatform
  ELSE LET l == Head(incoming)
           canonical == canonicalPlatform(l)
           p == platformKey(canonical)
       IN IF p = "" THEN linksFillIncoming(byPlatform, Tail(incoming))
          ELSE IF ~MapHas(byPlatform, p)
          THEN linksFillIncoming(MapSet(byPlatform, p, [l EXCEPT !.platform = canonical]),
                                 Tail(incoming))
          ELSE LET prev == MapGet(byPlatform, p)
                   lab == IF l.label # "" /\ looksDefaultLabel(prev.label, prev.platform)
                          THEN l.label ELSE prev.label
                   url == IF prev.url = "" /\ l.url # "" THEN l.url ELSE prev.url
               IN linksFillIncoming(MapSet(byPlatform, p, [prev EXCEPT !.label = lab, !.url = url]),
                                    Tail(incoming))

\* the two lists put one after the other, nothing grouped
mergeLinksConcat(existing, incoming) == existing \o incoming

\* mergeLinks of import-distrokid-album-html.mjs
mergeLinks(existing, incoming) ==
  MapValues(linksFillIncoming(linksByPlatform(<<>>, existing), incoming))

\* platformLabel of sync-netease-albums-api.mjs
platformLabel(platform) ==
  IF platform = "netease" THEN "NetEase" ELSE IF platform # "" THEN platform ELSE "Link"

\* The label that stands for a missing one: "" in sync-netease-artist-albums-api.mjs
\* (script = "artist"), platformLabel(platform) or the fallback word in
\* sync-netease-albums-api.mjs (script = "albumApi").
defaultLabel(script, platform, fallback) ==
  IF script = "artist" THEN ""
  ELSE IF platform # "" THEN platformLabel(platform) ELSE fallback

\* mergeLinks of the NetEase synchronisers: one entry per (platform, url) pair
RECURSIVE mergeLinksByUrlLoop(_, _, _, _)
mergeLinksByUrlLoop(out, seen, rest, script) ==
  IF rest = <<>> THEN out
  ELSE LET l == Head(rest)
           key == <<l.platform, l.url>>
       IN IF l.platform = "" /\ l.url = ""
          THEN mergeLinksByUrlLoop(out, seen, Tail(rest), script)
          ELSE IF key \in seen
          THEN mergeLinksByUrlLoop(out, seen, Tail(rest), script)
          ELSE mergeLinksByUrlLoop(
                 Append(out, Link(l.platform,
                                  IF l.label # "" THEN l.label
                                  ELSE defaultLabel(script, l.platform, "Link"),
                                  l.url)),
                 seen \cup {key}, Tail(rest), script)

mergeLinksByUrl(existing, incoming, script) ==
  mergeLinksByUrlLoop(<<>>, {}, existing \o incoming, script)

\* mergeEmbeds of the NetEase synchronisers: one entry per (platform, url) pair
RECURSIVE mergeEmbedsLoop(_, _, _, _)
mergeEmbedsLoop(out, seen, rest, script) ==
  IF rest = <<>> THEN out
  ELSE LET e == Head(rest)
           key == <<e.platform, e.url>>
       IN IF e.url = "" \/ key \in seen
          THEN mergeEmbedsLoop(out, seen, Tail(rest), script)
          ELSE mergeEmbedsLoop(
                 Append(out, Embed(e.platform,
                                   IF e.label # "" THEN e.label
                                   ELSE defaultLabel(script, e.platform, "Embed"),
                                   e.url, e.height)),
                 seen \cup {key}, Tail(rest), script)

mergeEmbeds(existing, incoming, script) ==
  mergeEmbedsLoop(<<>>, {}, existing \o incoming, script)

\* addTags: new Set(existing.filter(Boolean)) followed by the truthy incoming tags
addTags(existing, tags) == Dedup(FilterSeq(existing \o tags, {t \in Range(existing \o tags) : t # <<>>}))

\* addTag with push in place of Set.add: the tag is appended even when present
addTagPush(tags, tag) == Append(FilterSeq(tags, {t \in Range(tags) : t # <<>>}), tag)

\* addTag of the DistroKid importer: one tag added to the set of the existing tags
addTag(tags, tag) == Dedup(Append(FilterSeq(tags, {t \in Range(tags) : t # <<>>}), tag))

\* ------------------------------------------------------------------------
\* Catalog items
\* ------------------------------------------------------------------------
\* trackCount: undefined (not a finite number)
NoCount == -1

\* A tag that is a fixed word; a tag that repeats a title is the title itself
Word(w) == <<w>>

\* the title "(untitled album)" that the importers give to an album without a name:
\* "(" followed by the five Han characters, written as pinyin tokens, and ")"
PlaceholderAlbumTitle == <<"(", "wei4", "ming4", "ming2", "zhuan1", "ji2", ")">>

\* the title the NetEase synchronisers give to a song without a name
PlaceholderSongTitle == <<"(", "wei4", "ming4", "ming2", ")">>

\* An item of catalog.json; a field the JSON object lacks has the empty value
\* (albumuuid is refs.distrokid.albumuuid, neteaseAlbumId and neteaseSongId are
\* refs.netease.albumId and refs.netease.songId)
BlankItem ==
  [id |-> "", type |-> "", title |-> <<>>, artist |-> "", releaseDate |-> "",
   cover |-> "", trackCount |-> NoCount, upc |-> "", tags |-> <<>>, links |-> <<>>,
   embeds |-> <<>>, albumuuid |-> "", collectionId |-> "", isrc |-> "", lyrics |-> "",
   mood |-> "", duration |-> "", version |-> "", createdAt |-> "", inspiration |-> "",
   styleTags |-> <<>>, trackNo |-> NoCount, neteaseAlbumId |-> "", neteaseSongId |-> ""]

Ids(items) == {items[i].id : i \in 1..Len(items)}

ItemIndex(items, id) == FirstIndex(items, LAMBDA it : it.id = id)

\* byId.has(id)
HasItem(items, id) == ItemIndex(items, id) # 0

\* byId.get(id)
GetItem(items, id) == items[ItemIndex(items, id)]

\* items.push(item) in place of byId.set(id, item): the item is appended even when
\* the catalog holds one with that id
PutItemPush(items, id, item) == Append(items, item)

\* byId.set(id, item)
PutItem(items, id, item) ==
  IF HasItem(items, id) THEN [items EXCEPT ![ItemIndex(items, id)] = item]
  ELSE Append(items, item)

IsCollectionType(it) == it.type = "album" \/ it.type = "collection"

\* ------------------------------------------------------------------------
\* import-distrokid-album-html.mjs
\* ------------------------------------------------------------------------
\* The albumuuid values of the modelled snapshots
AlbumUuids == {"X1", "X2"}

DkAlbumId(albumuuid) == "distrokid-album-" \o albumuuid

\* albumId.startsWith("distrokid-album-"), over the ids the model can hold
StartsWithDkAlbum(id) == \E u \in AlbumUuids : id = DkAlbumId(u)

\* `${track?.trackNo || "x"}`: 0 stands for a missing track number
TrackNoText(n) ==
  CASE n = 1 -> "1"
    [] n = 2 -> "2"
    [] n = 3 -> "3"
    [] OTHER -> "x"

pickTrackPlatforms(albumLinks) ==
  FilterSeq(albumLinks,
            {l \in Range(albumLinks) :
               platformKey(l.platform) \in {"spotify", "apple", "youtube", "tiktok", "netease", "qq"}})

\* snap: what parseAlbumuuid, parseAlbumMeta, parseStores and parseTracks return
toIncomingAlbum(snap) ==
  [BlankItem EXCEPT
     !.id = DkAlbumId(snap.albumuuid),
     !.type = "album",
     !.title = IF snap.title # <<>> THEN snap.title ELSE PlaceholderAlbumTitle,
     !.artist = snap.artist,
     !.releaseDate = snap.releaseDate,
     !.cover = snap.cover,
     !.trackCount = IF Len(snap.tracks) # 0 THEN Len(snap.tracks) ELSE NoCount,
     !.upc = snap.upc,
     !.tags = <<Word("distrokid"), Word("album")>>
               \o (IF snap.title # <<>> THEN <<snap.title>> ELSE <<>>),
     !.links = snap.links,
     !.embeds = <<>>,
     !.albumuuid = snap.albumuuid]

\* mergeAlbum without the test for the placeholder title
mergeAlbumKeepTitle(existing, incoming) ==
  [existing EXCEPT
     !.type = "album",
     !.tags = addTag(addTag(existing.tags, Word("distrokid")), Word("album")),
     !.links = mergeLinks(existing.links, incoming.links),
     !.title = IF existing.title = <<>> THEN incoming.title ELSE existing.title,
     !.artist = IF existing.artist = "" THEN incoming.artist ELSE existing.artist,
     !.cover = IF existing.cover = "" THEN incoming.cover ELSE existing.cover,
     !.releaseDate = IF existing.releaseDate = "" THEN incoming.releaseDate
                     ELSE existing.releaseDate,
     !.trackCount = IF existing.trackCount = NoCount /\ incoming.trackCount # NoCount
                    THEN incoming.trackCount ELSE existing.trackCount,
     !.upc = IF existing.upc = "" /\ incoming.upc # "" THEN incoming.upc ELSE existing.upc,
     !.albumuuid = incoming.albumuuid]

\* the incoming album under the id of the existing one
mergeAlbumSpread(existing, incoming) == [incoming EXCEPT !.id = existing.id]

mergeAlbum(existing, incoming) ==
  [existing EXCEPT
     !.type = "album",
     !.tags = addTag(addTag(existing.tags, Word("distrokid")), Word("album")),
     !.links = mergeLinks(existing.links, incoming.links),
     !.title = IF existing.title = <<>> \/ existing.title = PlaceholderAlbumTitle
               THEN incoming.title ELSE existing.title,
     !.artist = IF existing.artist = "" THEN incoming.artist ELSE existing.artist,
     !.cover = IF existing.cover = "" THEN incoming.cover ELSE existing.cover,
     !.releaseDate = IF existing.releaseDate = "" THEN incoming.releaseDate
                     ELSE existing.releaseDate,
     !.trackCount = IF existing.trackCount = NoCount /\ incoming.trackCount # NoCount
                    THEN incoming.trackCount ELSE existing.trackCount,
     !.upc = IF existing.upc = "" /\ incoming.upc # "" THEN incoming.upc ELSE existing.upc,
     !.albumuuid = incoming.albumuuid]

\* findAlbumMatch with the first two strategies in the other order: release date
\* and title are consulted before the UPC
findAlbumMatchDateFirst(items, incoming) ==
  LET upc == StrTrim(incoming.upc)
      byUpc == IF upc # ""
               THEN FirstIndex(items, LAMBDA it : IsCollectionType(it) /\ it.upc = upc)
               ELSE 0
      releaseDate == StrTrim(incoming.releaseDate)
      titleKey == normalizeKey(incoming.title)
      byTitleDate == IF releaseDate # "" /\ titleKey # <<>>
                     THEN FirstIndex(items, LAMBDA it : /\ IsCollectionType(it)
                                                        /\ it.releaseDate = releaseDate
                                                        /\ normalizeKey(it.title) = titleKey)
                     ELSE 0
      albumuuid == incoming.albumuuid
      byUuid == IF albumuuid # ""
                THEN FirstIndex(items, LAMBDA it : it.albumuuid = albumuuid)
                ELSE 0
  IN IF byTitleDate # 0 THEN byTitleDate
     ELSE IF byUpc # 0 THEN byUpc
     ELSE byUuid

\* index in items of the album the incoming one is merged into, 0 for null
findAlbumMatch(items, incoming) ==
  LET upc == StrTrim(incoming.upc)
      byUpc == IF upc # ""
               THEN FirstIndex(items, LAMBDA it : IsCollectionType(it) /\ it.upc = upc)
               ELSE 0
      releaseDate == StrTrim(incoming.releaseDate)
      titleKey == normalizeKey(incoming.title)
      byTitleDate == IF releaseDate # "" /\ titleKey # <<>>
                     THEN FirstIndex(items, LAMBDA it : /\ IsCollectionType(it)
                                                        /\ it.releaseDate = releaseDate
                                                        /\ normalizeKey(it.title) = titleKey)
                     ELSE 0
      albumuuid == incoming.albumuuid
      byUuid == IF albumuuid # ""
                THEN FirstIndex(items, LAMBDA it : it.albumuuid = albumuuid)
                ELSE 0
  IN IF byUpc # 0 THEN byUpc
     ELSE IF byTitleDate # 0 THEN byTitleDate
     ELSE byUuid

\* findTrackByIsrc with the type test slipped to "album": no song is ever found
findTrackByIsrcAmongAlbums(items, isrc) ==
  LET key == StrUpper(StrTrim(isrc))
  IN IF key = "" THEN 0
     ELSE FirstIndex(items, LAMBDA it : it.type = "album" /\ it.type = "song"
                                        /\ StrUpper(StrTrim(it.isrc)) = key)

\* index in items of the first song with that ISRC, 0 for null
findTrackByIsrc(items, isrc) ==
  LET key == StrUpper(StrTrim(isrc))
  IN IF key = "" THEN 0
     ELSE FirstIndex(items, LAMBDA it : it.type = "song" /\ StrUpper(StrTrim(it.isrc)) = key)

stripAlbumPrefix(trackTitle, albumTitle) ==
  LET t == Trim(trackTitle)
      a == Trim(albumTitle)
      loweredT == Nfkc(t)
      loweredA == Nfkc(a)
  IN IF t = <<>> \/ a = <<>> THEN t
     ELSE IF StartsWith(loweredT, Append(loweredA, " ")) THEN Trim(SliceFrom(t, Len(a) + 1))
     ELSE IF StartsWith(loweredT, loweredA) THEN Trim(SliceFrom(t, Len(a)))
     ELSE t

\* The candidates of findTrackByTitleInAlbum not filtered by collectionId: every
\* song of the catalog is compared with the title
findTrackByTitleAnywhere(items, albumId, trackTitle, albumTitle) ==
  LET key == normalizeKey(stripAlbumPrefix(trackTitle, albumTitle))
      IsCandidate(it) == it.type = "song"
      direct == FirstIndex(items, LAMBDA it : IsCandidate(it) /\ normalizeKey(it.title) = key)
      contains == FirstIndex(items, LAMBDA it :
                    /\ IsCandidate(it)
                    /\ \/ Includes(normalizeKey(it.title), key)
                       \/ Includes(key, normalizeKey(it.title)))
  IN IF key = <<>> THEN 0
     ELSE IF direct # 0 THEN direct
     ELSE contains

\* index in items of the song of the album matched by title, 0 for null
findTrackByTitleInAlbum(items, albumId, trackTitle, albumTitle) ==
  LET key == normalizeKey(stripAlbumPrefix(trackTitle, albumTitle))
      IsCandidate(it) == it.type = "song" /\ it.collectionId = albumId
      direct == FirstIndex(items, LAMBDA it : IsCandidate(it) /\ normalizeKey(it.title) = key)
      contains == FirstIndex(items, LAMBDA it :
                    /\ IsCandidate(it)
                    /\ \/ Includes(normalizeKey(it.title), key)
                       \/ Includes(key, normalizeKey(it.title)))
  IN IF key = <<>> THEN 0
     ELSE IF direct # 0 THEN direct
     ELSE contains

\* albumMeta: albumMetaForTracks of main
toNewTrackItem(albumId, albumMeta, track, albumLinks) ==
  LET isrc == StrUpper(StrTrim(track.isrc))
  IN [BlankItem EXCEPT
        !.id = IF isrc # "" THEN "isrc-" \o isrc
               ELSE "distrokid-track-"
                    \o (IF albumMeta.albumuuid # "" THEN albumMeta.albumuuid ELSE albumId)
                    \o "-" \o TrackNoText(track.trackNo),
        !.type = "song",
        !.title = stripAlbumPrefix(track.title, albumMeta.title),
        !.artist = albumMeta.artist,
        !.releaseDate = albumMeta.releaseDate,
        !.cover = albumMeta.cover,
        !.collectionId = albumId,
        !.isrc = isrc,
        !.tags = <<Word("distrokid"), Word("song")>>
                  \o (IF albumMeta.title # <<>> THEN <<albumMeta.title>> ELSE <<>>),
        !.links = pickTrackPlatforms(albumLinks),
        !.embeds = <<>>,
        !.albumuuid = albumMeta.albumuuid]

\* the incoming track under the id of the existing one
mergeTrackSpread(existing, incoming) == [incoming EXCEPT !.id = existing.id]

mergeTrack(existing, incoming) ==
  [existing EXCEPT
     !.type = "song",
     !.tags = addTag(existing.tags, Word("distrokid")),
     !.links = mergeLinks(existing.links, incoming.links),
     !.isrc = IF existing.isrc = "" /\ incoming.isrc # "" THEN incoming.isrc ELSE existing.isrc,
     !.releaseDate = IF existing.releaseDate = "" THEN incoming.releaseDate
                     ELSE existing.releaseDate,
     !.cover = IF existing.cover = "" THEN incoming.cover ELSE existing.cover]

\* The body of one turn of the loop `for (const t of tracks)` of main, given what
\* the turn computed first: byIsrc and byTitle (indexes in st.items, 0 for null)
\* and derived, the item toNewTrackItem builds for the track under albumId.
\* st.items is Array.from(byId.values()); st.log gets one entry per track:
\* how the track was settled, the id of the item it was merged into or created
\* as, and the id derived for it.
DkTrackSettle(st, albumId, albumMeta, albumLinks, canCreateTracks, t, byIsrc, byTitle, derived) ==
  IF byIsrc # 0
  THEN [items |-> PutItem(st.items, st.items[byIsrc].id,
                          mergeTrack(st.items[byIsrc],
                                     [toNewTrackItem(IF st.items[byIsrc].collectionId # ""
                                                     THEN st.items[byIsrc].collectionId
                                                     ELSE albumId,
                                                     albumMeta, t, albumLinks)
                                        EXCEPT !.id = st.items[byIsrc].id])),
        log |-> Append(st.log, [how |-> "isrc", id |-> st.items[byIsrc].id,
                                derivedId |-> derived.id])]
  ELSE IF byTitle # 0
  THEN [items |-> PutItem(st.items, st.items[byTitle].id,
                          mergeTrack(st.items[byTitle],
                                     [derived EXCEPT !.id = st.items[byTitle].id])),
        log |-> Append(st.log, [how |-> "title", id |-> st.items[byTitle].id,
                                derivedId |-> derived.id])]
  ELSE IF canCreateTracks
  THEN IF ~HasItem(st.items, derived.id)
       THEN [items |-> PutItem(st.items, derived.id, derived),
             log |-> Append(st.log, [how |-> "created", id |-> derived.id,
                                     derivedId |-> derived.id])]
       ELSE [items |-> st.items,
             log |-> Append(st.log, [how |-> "idTaken", id |-> "", derivedId |-> derived.id])]
  ELSE [items |-> st.items,
        log |-> Append(st.log, [how |-> "noCreate", id |-> "", derivedId |-> derived.id])]

\* One turn of the loop `for (const t of tracks)` of main
DkTrackStep(st, albumId, albumMeta, albumLinks, canCreateTracks, t) ==
  DkTrackSettle(st, albumId, albumMeta, albumLinks, canCreateTracks, t,
                IF StrUpper(StrTrim(t.isrc)) # ""
                THEN findTrackByIsrc(st.items, StrUpper(StrTrim(t.isrc))) ELSE 0,
                findTrackByTitleInAlbum(st.items, albumId, t.title, albumMeta.title),
                toNewTrackItem(albumId, albumMeta, t, albumLinks))

RECURSIVE DkTrackLoop(_, _, _, _, _, _)
DkTrackLoop(st, albumId, albumMeta, albumLinks, canCreateTracks, tracks) ==
  IF tracks = <<>> THEN st
  ELSE DkTrackLoop(DkTrackStep(st, albumId, albumMeta, albumLinks, canCreateTracks, Head(tracks)),
                   albumId, albumMeta, albumLinks, canCreateTracks, Tail(tracks))

\* What one turn of `for (const htmlPath of htmlPaths)` leaves: the catalog and
\* what the turn did (done is the state after the loop over the tracks)
DkImportResult(incoming, matchedAlbum, albumId, canCreateTracks, done) ==
  [items |-> done.items,
   albumId |-> albumId,
   incomingId |-> incoming.id,
   matched |-> matchedAlbum # 0,
   canCreateTracks |-> canCreateTracks,
   tracks |-> done.log]

\* DkImportTracks with existingTracksForAlbum counting the songs of every album
DkImportTracksAnySong(snap, incoming, matchedAlbum, albumId, afterAlbum) ==
  LET mergedAlbum == GetItem(afterAlbum, albumId)
      existingTracksForAlbum ==
        Cardinality({i \in 1..Len(afterAlbum) :
                       afterAlbum[i].type = "song"})
      canCreateTracks ==
        matchedAlbum = 0 \/ (StartsWithDkAlbum(albumId) /\ existingTracksForAlbum = 0)
      albumMetaForTracks ==
        [albumuuid |-> snap.albumuuid,
         title |-> IF mergedAlbum.title # <<>> THEN mergedAlbum.title ELSE incoming.title,
         artist |-> IF mergedAlbum.artist # "" THEN mergedAlbum.artist ELSE incoming.artist,
         releaseDate |-> IF mergedAlbum.releaseDate # "" THEN mergedAlbum.releaseDate
                         ELSE incoming.releaseDate,
         cover |-> IF mergedAlbum.cover # "" THEN mergedAlbum.cover ELSE incoming.cover]
  IN DkImportResult(incoming, matchedAlbum, albumId, canCreateTracks,
                    DkTrackLoop([items |-> afterAlbum, log |-> <<>>], albumId,
                                albumMetaForTracks, snap.links, canCreateTracks, snap.tracks))

\* main after the album was merged or created: afterAlbum is the catalog then
DkImportTracks(snap, incoming, matchedAlbum, albumId, afterAlbum) ==
  LET mergedAlbum == GetItem(afterAlbum, albumId)
      existingTracksForAlbum ==
        Cardinality({i \in 1..Len(afterAlbum) :
                       afterAlbum[i].type = "song" /\ afterAlbum[i].collectionId = albumId})
      canCreateTracks ==
        matchedAlbum = 0 \/ (StartsWithDkAlbum(albumId) /\ existingTracksForAlbum = 0)
      albumMetaForTracks ==
        [albumuuid |-> snap.albumuuid,
         title |-> IF mergedAlbum.title # <<>> THEN mergedAlbum.title ELSE incoming.title,
         artist |-> IF mergedAlbum.artist # "" THEN mergedAlbum.artist ELSE incoming.artist,
         releaseDate |-> IF mergedAlbum.releaseDate # "" THEN mergedAlbum.releaseDate
                         ELSE incoming.releaseDate,
         cover |-> IF mergedAlbum.cover # "" THEN mergedAlbum.cover ELSE incoming.cover]
  IN DkImportResult(incoming, matchedAlbum, albumId, canCreateTracks,
                    DkTrackLoop([items |-> afterAlbum, log |-> <<>>], albumId,
                                albumMetaForTracks, snap.links, canCreateTracks, snap.tracks))

\* main once the album to merge into is known: matchedAlbum is its index in
\* items, 0 when the incoming album is new
DkImportMatched(items, snap, incoming, matchedAlbum) ==
  DkImportTracks(snap, incoming, matchedAlbum,
                 IF matchedAlbum # 0 THEN items[matchedAlbum].id ELSE incoming.id,
                 IF matchedAlbum # 0
                 THEN PutItem(items, items[matchedAlbum].id,
                              mergeAlbum(items[matchedAlbum], incoming))
                 ELSE PutItem(items, incoming.id, incoming))

\* One turn of the loop `for (const htmlPath of htmlPaths)` of main, for a snapshot
\* that has an albumuuid: the catalog afterwards and what the turn did
DkImport(items, snap) ==
  DkImportMatched(items, snap, toIncomingAlbum(snap),
                  findAlbumMatch(items, toIncomingAlbum(snap)))

\* ------------------------------------------------------------------------
\* import-distrokid-mymusic-html.mjs
\* ------------------------------------------------------------------------
\* toAlbumItem: the stub album of one release row of the My Music page
toAlbumItem(r) ==
  [BlankItem EXCEPT
     !.id = DkAlbumId(r.albumuuid),
     !.type = "album",
     !.title = IF r.title # <<>> THEN r.title ELSE PlaceholderAlbumTitle,
     !.artist = r.artist,
     !.releaseDate = "",
     !.cover = r.cover,
     !.trackCount = r.trackCount,
     !.tags = <<Word("distrokid"), Word("album")>>
               \o (IF r.title # <<>> THEN <<r.title>> ELSE <<>>),
     !.links = r.links,
     !.embeds = <<>>,
     !.albumuuid = r.albumuuid]

\* mergeAlbum of import-distrokid-mymusic-html.mjs
mymusicMergeAlbum(existing, incoming) ==
  [existing EXCEPT
     !.type = "album",
     !.tags = addTag(addTag(existing.tags, Word("distrokid")), Word("album")),
     !.links = mergeLinks(existing.links, incoming.links),
     !.title = IF existing.title = <<>> \/ existing.title = PlaceholderAlbumTitle
               THEN incoming.title ELSE existing.title,
     !.artist = IF existing.artist = "" THEN incoming.artist ELSE existing.artist,
     !.cover = IF existing.cover = "" THEN incoming.cover ELSE existing.cover,
     !.trackCount = IF existing.trackCount = NoCount /\ incoming.trackCount # NoCount
                    THEN incoming.trackCount ELSE existing.trackCount,
     !.albumuuid = incoming.albumuuid]

\* main: each release is looked up by the id distrokid-album-<albumuuid> only
RECURSIVE MymusicImport(_, _)
MymusicImport(items, releases) ==
  IF releases = <<>> THEN items
  ELSE MymusicImport(
         IF HasItem(items, toAlbumItem(Head(releases)).id)
         THEN PutItem(items, toAlbumItem(Head(releases)).id,
                      mymusicMergeAlbum(GetItem(items, toAlbumItem(Head(releases)).id),
                                        toAlbumItem(Head(releases))))
         ELSE PutItem(items, toAlbumItem(Head(releases)).id, toAlbumItem(Head(releases))),
         Tail(releases))

\* ------------------------------------------------------------------------

\* sync-netease-albums-api.mjs and sync-netease-artist-albums-api.mjs
\* ------------------------------------------------------------------------
\* { ...existing, ...incoming }: the keys the incoming object has take its values
Spread(existing, incoming, keys) ==
  [f \in DOMAIN existing |-> IF f \in keys THEN incoming[f] ELSE existing[f]]

\* the keys of the object toAlbumItemFromApi / toAlbumItemFromArtistList builds
NeAlbumKeys ==
  {"id", "type", "title", "artist", "releaseDate", "cover", "trackCount", "tags", "links",
   "embeds"}

\* the keys of the object toSongItemFromApi / toSongItemFromAlbumApi builds
NeSongKeys ==
  {"id", "type", "title", "artist", "releaseDate", "cover", "collectionId", "tags",
   "links", "embeds"}

NeAlbumItemId(albumId) == "netease-album-" \o albumId

NeSongItemId(songId) == "netease-song-" \o songId

NeAlbumUrl(albumId) == "https://music.163.com/#/album?id=" \o albumId

NeSongUrl(songId) == "https://music.163.com/#/song?id=" \o songId

NePlayerUrl(songId) ==
  "https://music.163.com/outchain/player?type=2&id=" \o songId \o "&auto=0&height=66"

\* album: the `album` object of the API answer (name, artist, cover, releaseDate
\* after normalizeCover and toISODate, size)
toAlbumItemFromApi(albumId, album) ==
  [BlankItem EXCEPT
     !.id = NeAlbumItemId(albumId),
     !.type = "album",
     !.title = IF album.name # <<>> THEN album.name ELSE PlaceholderAlbumTitle,
     !.artist = album.artist,
     !.releaseDate = album.releaseDate,
     !.cover = album.cover,
     !.trackCount = album.size,
     !.tags = <<Word("netease"), Word("album")>>
               \o (IF album.name # <<>> THEN <<album.name>> ELSE <<>>),
     !.links = <<Link("netease", "NetEase Album", NeAlbumUrl(albumId))>>,
     !.embeds = <<>>]

\* toAlbumItemFromAlbumApi and toAlbumItemFromArtistList of
\* sync-netease-artist-albums-api.mjs: the title tag is always there, because it
\* repeats the title after the placeholder was put in.  (For the list entry,
\* album.artist is the artist after the fallback to the artist's name.)
toAlbumItemFromAlbumApi(albumId, album) ==
  LET title == IF album.name # <<>> THEN album.name ELSE PlaceholderAlbumTitle
  IN [toAlbumItemFromApi(albumId, album) EXCEPT
        !.title = title,
        !.tags = <<Word("netease"), Word("album")>> \o (IF title # <<>> THEN <<title>> ELSE <<>>)]

toSongItemFromApi(song, albumId, albumMeta) ==
  LET albumName == IF albumMeta.title # <<>> THEN albumMeta.title ELSE song.albumName
  IN [BlankItem EXCEPT
        !.id = NeSongItemId(song.id),
        !.type = "song",
        !.title = IF song.name # <<>> THEN song.name ELSE PlaceholderSongTitle,
        !.artist = IF song.artist # "" THEN song.artist ELSE albumMeta.artist,
        !.cover = IF song.cover # "" THEN song.cover ELSE albumMeta.cover,
        !.releaseDate = albumMeta.releaseDate,
        !.collectionId = NeAlbumItemId(albumId),
        !.tags = <<Word("netease"), Word("song")>>
                  \o (IF albumName # <<>> THEN <<albumName>> ELSE <<>>),
        !.links = <<Link("netease", "NetEase Song", NeSongUrl(song.id))>>,
        !.embeds = <<Embed("netease", "NetEase Player", NePlayerUrl(song.id), 86)>>]

ensureAlbumStub(items, albumId) ==
  IF HasItem(items, NeAlbumItemId(albumId)) THEN items
  ELSE PutItem(items, NeAlbumItemId(albumId),
               [BlankItem EXCEPT
                  !.id = NeAlbumItemId(albumId),
                  !.type = "album",
                  !.tags = <<Word("netease"), Word("album")>>,
                  !.links = <<Link("netease", "NetEase Album", NeAlbumUrl(albumId))>>])

\* mergeAlbum of the NetEase synchronisers.  `next` starts as the spread
\* { ...existing, ...incoming }; each assignment `next.f = ...` is one line of
\* the EXCEPT, in which @ is next.f as the spread left it.
mergeAlbumNe(existing, incoming, script) ==
  [Spread(existing, incoming, NeAlbumKeys) EXCEPT
     !.type = "album",
     !.tags = addTags(@, incoming.tags),
     !.links = mergeLinksByUrl(existing.links, incoming.links, script),
     !.title = IF existing.title = <<>> \/ existing.title = PlaceholderAlbumTitle
               THEN incoming.title ELSE @,
     !.artist = IF existing.artist = "" THEN incoming.artist ELSE @,
     !.cover = IF existing.cover = "" THEN incoming.cover ELSE @,
     !.releaseDate = IF existing.releaseDate = "" THEN incoming.releaseDate ELSE @,
     !.trackCount = IF existing.trackCount = NoCount /\ incoming.trackCount # NoCount
                    THEN incoming.trackCount ELSE @]

\* mergeSong of the NetEase synchronisers, in the same way
mergeSongNe(existing, incoming, script) ==
  [Spread(existing, incoming, NeSongKeys) EXCEPT
     !.type = "song",
     !.collectionId = IF incoming.collectionId # "" THEN incoming.collectionId
                      ELSE existing.collectionId,
     !.tags = addTags(@, incoming.tags),
     !.links = mergeLinksByUrl(existing.links, incoming.links, script),
     !.embeds = mergeEmbeds(existing.embeds, incoming.embeds, script),
     !.title = IF existing.title = <<>> \/ existing.title = PlaceholderSongTitle
               THEN incoming.title ELSE @,
     !.artist = IF existing.artist = "" THEN incoming.artist ELSE @,
     !.cover = IF existing.cover = "" THEN incoming.cover ELSE @,
     !.releaseDate = IF existing.releaseDate = "" THEN incoming.releaseDate ELSE @]

\* the loop `for (const s of songs)` of both synchronisers
RECURSIVE NeSongLoop(_, _, _, _, _)
NeSongLoop(items, songs, albumId, albumMeta, script) ==
  IF songs = <<>> THEN items
  ELSE LET incomingSong == toSongItemFromApi(Head(songs), albumId, albumMeta)
           next == IF HasItem(items, incomingSong.id)
                   THEN PutItem(items, incomingSong.id,
                                mergeSongNe(GetItem(items, incomingSong.id), incomingSong, script))
                   ELSE PutItem(items, incomingSong.id, incomingSong)
       IN NeSongLoop(next, Tail(songs), albumId, albumMeta, script)

\* One turn of `for (const albumId of albumIds)` of sync-netease-albums-api.mjs;
\* api is the answer of fetchJson
NeSyncAlbum(items, api) ==
  LET stubbed == ensureAlbumStub(items, api.albumId)
      incomingAlbum == toAlbumItemFromApi(api.albumId, api.album)
      prevAlbum == GetItem(stubbed, incomingAlbum.id)
      merged == PutItem(stubbed, incomingAlbum.id, mergeAlbumNe(prevAlbum, incomingAlbum, "albumApi"))
      albumMeta == GetItem(merged, incomingAlbum.id)
  IN NeSongLoop(merged, api.songs, api.albumId, albumMeta, "albumApi")

\* One turn of `for (const a of artistAlbums)` of sync-netease-artist-albums-api.mjs;
\* listed is the entry of the artist's album list, api the answer for that album
NeSyncArtistAlbum(items, listed, api) ==
  LET incomingAlbumFromList == toAlbumItemFromAlbumApi(api.albumId, listed)
      first == IF HasItem(items, incomingAlbumFromList.id)
               THEN PutItem(items, incomingAlbumFromList.id,
                            mergeAlbumNe(GetItem(items, incomingAlbumFromList.id),
                                         incomingAlbumFromList, "artist"))
               ELSE PutItem(items, incomingAlbumFromList.id, incomingAlbumFromList)
      incomingAlbumFromApi == toAlbumItemFromAlbumApi(api.albumId, api.album)
      curAlbum == GetItem(first, incomingAlbumFromApi.id)
      second == PutItem(first, incomingAlbumFromApi.id,
                        mergeAlbumNe(curAlbum, incomingAlbumFromApi, "artist"))
      albumMeta == GetItem(second, incomingAlbumFromApi.id)
  IN NeSongLoop(second, api.songs, api.albumId, albumMeta, "artist")

\* ------------------------------------------------------------------------
\* merge-items-to-catalog.mjs
\* ------------------------------------------------------------------------
\* the exported item written as the whole catalog
MergeItemOnly(items, inc) == <<Spread(BlankItem, inc.item, inc.keys)>>

\* inc.item holds the values, inc.keys the keys the exported JSON object has
MergeItem(items, inc) ==
  IF HasItem(items, inc.item.id)
  THEN PutItem(items, inc.item.id, Spread(GetItem(items, inc.item.id), inc.item, inc.keys))
  ELSE Append(items, Spread(BlankItem, inc.item, inc.keys))

\* ------------------------------------------------------------------------
\* import-local-album-metadata.mjs
\* ------------------------------------------------------------------------
Spaces == {" "}

Digits == {"0", "1", "2", "3", "4", "5", "6", "7", "8", "9"}

LowerLetters ==
  {"a", "b", "c", "d", "e", "f", "g", "h", "i", "j", "k", "l", "m", "n", "o", "p", "q",
   "r", "s", "t", "u", "v", "w", "x", "y", "z"}

UpperLetters ==
  {"A", "B", "C", "D", "E", "F", "G", "H", "I", "J", "K", "L", "M", "N", "O", "P", "Q",
   "R", "S", "T", "U", "V", "W", "X", "Y", "Z"}

\* \w of a regular expression without the u flag
IsWordChar(c) == c \in LowerLetters \cup UpperLetters \cup Digits \cup {"_"}

\* number of consecutive elements of S in s from index i on
RECURSIVE RunLen(_, _, _)
RunLen(s, i, S) == IF i <= Len(s) /\ s[i] \in S THEN 1 + RunLen(s, i + 1, S) ELSE 0

\* number of consecutive elements of S at the end of s
RECURSIVE BackRunLen(_, _)
BackRunLen(s, S) ==
  IF s # <<>> /\ s[Len(s)] \in S THEN 1 + BackRunLen(SubSeq(s, 1, Len(s) - 1), S) ELSE 0

DropLast(s, n) == SubSeq(s, 1, Len(s) - n)

\* String.prototype.endsWith on character sequences
EndsWith(s, w) == Len(w) <= Len(s) /\ SubSeq(s, Len(s) - Len(w) + 1, Len(s)) = w

\* .replace(/[class]/g, " ")
BlankOut(s, S) == [i \in 1..Len(s) |-> IF s[i] \in S THEN " " ELSE s[i]]

\* the replaceAll calls of normalizeText, per character: "FLAT" is U+266D, "SHARP"
\* U+266F, "LENTIC[" U+3010, "LENTIC]" U+3011, "IDEOSTOP" U+3002
NormalizeTextChar(c) ==
  CASE c = "FLAT" -> " "
    [] c = "SHARP" -> " "
    [] c = "FW(" -> "("
    [] c = "FW)" -> ")"
    [] c = "LENTIC[" -> "["
    [] c = "LENTIC]" -> "]"
    [] c = "FW:" -> ":"
    [] c = "FW," -> ","
    [] c = "IDEOSTOP" -> "."
    [] OTHER -> c

normalizeText(s) == MapChars(Lower(Trim(s)), NormalizeTextChar)

\* .replace(/^\s*\d+\s*[-._\s]+\s*/g, ""): a leading track number and its separator
stripTrackNo(s) ==
  LET a == RunLen(s, 1, Spaces)
      d == RunLen(s, a + 1, Digits)
      r == RunLen(s, a + d + 1, {"-", ".", "_"} \cup Spaces)
  IN IF d >= 1 /\ r >= 1 THEN SliceFrom(s, a + d + r) ELSE s

\* .replace(/(?:[_\-\s]*WORD)\s*$/g, ""): the word w at the end of s, the white
\* space after it and the separators before it
stripSuffixWord(s, w) ==
  IF EndsWith(Lower(TrimRight(s)), w)
  THEN DropLast(DropLast(TrimRight(s), Len(w)),
                BackRunLen(DropLast(TrimRight(s), Len(w)), {"_", "-"} \cup Spaces))
  ELSE s

\* the three suffix replacements: "ge1" "ci2" are the two Han characters of the
\* word for lyrics, then lyric(s) and lrc
stripLyricsSuffix(s) ==
  stripSuffixWord(
    stripSuffixWord(
      stripSuffixWord(
        stripSuffixWord(s, <<"ge1", "ci2">>),
        <<"l", "y", "r", "i", "c", "s">>),
      <<"l", "y", "r", "i", "c">>),
    <<"l", "r", "c">>)

\* "LDANGLE" is U+300A, "RDANGLE" U+300B; "BACKTICK" is U+0060
BracketChars ==
  {"[", "]", "LENTIC[", "LENTIC]", "(", ")", "FW(", "FW)", "{", "}", "<", ">", "LDANGLE",
   "RDANGLE"}

PunctChars ==
  {"MIDDOT", "BULLET", "!", "FW!", "?", "FW?", ",", ":", "FW:", ";", "FW;", "\"", "'",
   "LDQUO", "RDQUO", "LSQUO", "RSQUO", "BACKTICK", "~", "@", "#", "$", "%", "^", "&", "*", "+",
   "=", "|", "\\", "/"}

ChordWords == {<<"m", "a", "j">>, <<"m", "i", "n">>, <<"d", "i", "m">>, <<"a", "u", "g">>}

\* whether /\b(?:maj|min|dim|aug)\d{0,2}\b/i matches n characters of s at index i
ChordMatches(s, i, n) ==
  /\ i + n - 1 <= Len(s)
  /\ i = 1 \/ ~IsWordChar(s[i - 1])
  /\ Lower(SubSeq(s, i, i + 2)) \in ChordWords
  /\ \A j \in (i + 3)..(i + n - 1) : s[j] \in Digits
  /\ i + n > Len(s) \/ ~IsWordChar(s[i + n])

\* length of the match of the chord pattern at index i of s, 0 if none
ChordMatchLen(s, i) ==
  IF ChordMatches(s, i, 5) THEN 5
  ELSE IF ChordMatches(s, i, 4) THEN 4
  ELSE IF ChordMatches(s, i, 3) THEN 3
  ELSE 0

\* .replace(/\b(?:maj|min|dim|aug)\d{0,2}\b/gi, " "), from index i on
RECURSIVE stripChords(_, _)
stripChords(s, i) ==
  IF i > Len(s) THEN <<>>
  ELSE IF ChordMatchLen(s, i) > 0
       THEN <<" ">> \o stripChords(s, i + ChordMatchLen(s, i))
       ELSE <<s[i]>> \o stripChords(s, i + 1)

\* .replace(/\s+/g, " ")
RECURSIVE collapseSpaces(_)
collapseSpaces(s) ==
  IF s = <<>> THEN <<>>
  ELSE IF IsSpace(Head(s))
       THEN <<" ">> \o collapseSpaces(SliceFrom(s, RunLen(s, 1, Spaces)))
       ELSE <<Head(s)>> \o collapseSpaces(Tail(s))

normalizeTitle(s) ==
  Trim(collapseSpaces(
         stripChords(
           BlankOut(BlankOut(stripLyricsSuffix(stripTrackNo(Nfkc(normalizeText(s)))),
                             BracketChars),
                    PunctChars),
           1)))

makeCompositeKey(albumKey, trackKey) == albumKey \o <<":", ":">> \o trackKey

\* mergeSetArray: new Set(existing.filter(Boolean)) followed by the truthy incoming
mergeSetArray(existing, incoming) ==
  Dedup(FilterSeq(existing \o incoming, {t \in Range(existing \o incoming) : t # ""}))

\* id.startsWith("isrc-"), over the ids the model can hold
StartsWithIsrc(id) == \E isrc \in {"I1", "I2"} : id = "isrc-" \o isrc

\* isDistrokidSong without the test of the tags: only the id tells
isDistrokidSongById(item) == item.type = "song" /\ StartsWithIsrc(item.id)

isDistrokidSong(item) ==
  /\ item.type = "song"
  /\ StartsWithIsrc(item.id) \/ Word("distrokid") \in Range(item.tags)

\* isLyricsNoise over the modelled texts: "NOISE" stands for a text that holds
\* three of the hints
isLyricsNoise(text) == StrTrim(text) = "" \/ text = "NOISE"

\* whether maybeSet assigns (its return value)
maybeSetDoes(obj, key, value, overwrite) ==
  /\ StrTrim(value) # ""
  /\ overwrite \/ StrTrim(obj[key]) = ""

\* the object after maybeSet; a value that is null or undefined is ""
maybeSet(obj, key, value, overwrite) ==
  IF maybeSetDoes(obj, key, value, overwrite) THEN [obj EXCEPT ![key] = StrTrim(value)]
  ELSE obj

\* a Map of the script as a function: Map.prototype.has
Has(m, k) == k \in DOMAIN m

\* collectionsById.get(id) || "": the trimmed title of the album, collection or
\* playlist with that id
collectionTitle(items, id) ==
  IF FirstIndex(items, LAMBDA it : it.type \in {"album", "collection", "playlist"} /\ it.id = id) = 0
  THEN <<>>
  ELSE Trim(items[FirstIndex(items, LAMBDA it :
                    it.type \in {"album", "collection", "playlist"} /\ it.id = id)].title)

\* titleCounts.get(key) || 0
titleCount(items, key) ==
  Cardinality({i \in 1..Len(items) :
                 items[i].type = "song" /\ normalizeTitle(Trim(items[i].title)) = key})

\* distrokidTitleCounts.get(key) || 0
distrokidTitleCount(items, key) ==
  Cardinality({i \in 1..Len(items) :
                 /\ items[i].type = "song"
                 /\ normalizeTitle(Trim(items[i].title)) = key
                 /\ isDistrokidSong(items[i])})

\* What one turn of the loop `for (const it of items)` has done so far to the
\* item: acc.item is the item, acc.touched the flag, acc.skipped the number of
\* skipped attempts, acc.lyric, acc.mood and acc.meta what each step did
NoEnrichment(it) ==
  [item |-> it, touched |-> FALSE, skipped |-> 0, lyric |-> "none", mood |-> "none",
   meta |-> "none"]

\* the lyrics step: text is (lyricAlbum || lyricTitle).text
enrichLyrics(acc, hasLyric, text, lyricIsFallback, ambiguousTitle, dkCount, overwrite) ==
  IF ~hasLyric THEN acc
  ELSE IF lyricIsFallback /\ ambiguousTitle /\ dkCount > 1
  THEN [acc EXCEPT !.skipped = @ + 1, !.lyric = "skipped"]
  ELSE [acc EXCEPT !.item = maybeSet(@, "lyrics", text, overwrite),
                   !.touched = maybeSetDoes(acc.item, "lyrics", text, overwrite) \/ @,
                   !.lyric = "applied"]

\* the mood step: mood is moodAlbum || moodTitle
enrichMood(acc, mood, moodIsFallback, ambiguousTitle, overwrite) ==
  IF mood = "" THEN acc
  ELSE IF moodIsFallback /\ ambiguousTitle
  THEN [acc EXCEPT !.skipped = @ + 1, !.mood = "skipped"]
  ELSE [acc EXCEPT !.item = maybeSet(@, "mood", mood, overwrite),
                   !.touched = maybeSetDoes(acc.item, "mood", mood, overwrite) \/ @,
                   !.mood = "applied"]

\* the fields of the meta object set one after the other
RECURSIVE applyMeta(_, _, _, _)
applyMeta(acc, meta, fields, overwrite) ==
  IF fields = <<>> THEN acc
  ELSE applyMeta([acc EXCEPT
                    !.item = maybeSet(@, Head(fields), meta[Head(fields)], overwrite),
                    !.touched = maybeSetDoes(acc.item, Head(fields), meta[Head(fields)],
                                             overwrite) \/ @],
                 meta, Tail(fields), overwrite)

\* the meta step: meta is metaAlbum || metaTitle
enrichMeta(acc, hasMeta, meta, metaIsFallback, ambiguousTitle, overwrite) ==
  IF ~hasMeta THEN acc
  ELSE IF metaIsFallback /\ ambiguousTitle
  THEN [acc EXCEPT !.skipped = @ + 1, !.meta = "skipped"]
  ELSE [applyMeta(acc, meta,
                  <<"duration", "version", "createdAt", "inspiration">>
                    \o (IF meta.lyrics # "" /\ ~isLyricsNoise(meta.lyrics)
                        THEN <<"lyrics">> ELSE <<>>),
                  overwrite)
          EXCEPT !.meta = "applied"]

\* the branch `type === "song"` of the loop, for a song whose title has the key
\* `key` and whose album has the composite key `compositeKey` (<<>> if none)
enrichSong(it, maps, overwrite, key, compositeKey, ambiguousTitle, dkCount) ==
  enrichMeta(
    enrichMood(
      enrichLyrics(NoEnrichment(it),
                   (compositeKey # <<>> /\ Has(maps.lyricByAlbumTitle, compositeKey))
                     \/ Has(maps.lyricByTitle, key),
                   IF compositeKey # <<>> /\ Has(maps.lyricByAlbumTitle, compositeKey)
                   THEN maps.lyricByAlbumTitle[compositeKey] ELSE maps.lyricByTitle[key],
                   ~(compositeKey # <<>> /\ Has(maps.lyricByAlbumTitle, compositeKey))
                     /\ Has(maps.lyricByTitle, key),
                   ambiguousTitle, dkCount, overwrite),
      IF compositeKey # <<>> /\ Has(maps.moodByAlbumTitle, compositeKey)
         /\ maps.moodByAlbumTitle[compositeKey] # ""
      THEN maps.moodByAlbumTitle[compositeKey]
      ELSE IF Has(maps.moodByTitle, key) THEN maps.moodByTitle[key] ELSE "",
      ~(compositeKey # <<>> /\ Has(maps.moodByAlbumTitle, compositeKey)
        /\ maps.moodByAlbumTitle[compositeKey] # "")
        /\ Has(maps.moodByTitle, key) /\ maps.moodByTitle[key] # "",
      ambiguousTitle, overwrite),
    (compositeKey # <<>> /\ Has(maps.metaByAlbumTitle, compositeKey))
      \/ Has(maps.metaByTitle, key),
    IF compositeKey # <<>> /\ Has(maps.metaByAlbumTitle, compositeKey)
    THEN maps.metaByAlbumTitle[compositeKey] ELSE maps.metaByTitle[key],
    ~(compositeKey # <<>> /\ Has(maps.metaByAlbumTitle, compositeKey))
      /\ Has(maps.metaByTitle, key),
    ambiguousTitle, overwrite)

\* the branch for an album, a collection or a playlist: the style tags found
\* for its title are added to its styleTags
enrichAlbum(it, maps, key) ==
  IF ~Has(maps.albumStyleTagsByTitle, key) \/ maps.albumStyleTagsByTitle[key] = <<>>
  THEN NoEnrichment(it)
  ELSE [NoEnrichment(it) EXCEPT
          !.item = [it EXCEPT !.styleTags =
                      mergeSetArray(it.styleTags, maps.albumStyleTagsByTitle[key])],
          !.touched = mergeSetArray(it.styleTags, maps.albumStyleTagsByTitle[key])
                      # it.styleTags]

\* the composite key of a song: the normalized title of its album, two colons, its own key
compositeKeyOf(albumKey, key) == IF albumKey # <<>> THEN makeCompositeKey(albumKey, key) ELSE <<>>

\* One turn of the loop `for (const it of items)`; items is the catalog as read
enrichItem(it, items, maps, overwrite, key) ==
  IF key = <<>> THEN NoEnrichment(it)
  ELSE IF it.type = "song"
  THEN enrichSong(it, maps, overwrite, key,
                  compositeKeyOf(normalizeTitle(collectionTitle(items, it.collectionId)), key),
                  titleCount(items, key) > 1, distrokidTitleCount(items, key))
  ELSE IF it.type \in {"album", "collection", "playlist"}
  THEN enrichAlbum(it, maps, key)
  ELSE NoEnrichment(it)

\* what the run reports and the catalog it writes, one turn added
enrichRecord(st, acc) ==
  [items |-> Append(st.items, acc.item),
   skippedAmbiguous |-> st.skippedAmbiguous + acc.skipped,
   songUpdated |-> st.songUpdated + (IF acc.item.type = "song" /\ acc.touched THEN 1 ELSE 0),
   albumUpdated |-> st.albumUpdated + (IF acc.item.type # "song" /\ acc.touched THEN 1 ELSE 0),
   log |-> Append(st.log, [id |-> acc.item.id, lyric |-> acc.lyric, mood |-> acc.mood,
                           meta |-> acc.meta])]

\* the loop `for (const it of items)` of main from the i-th item on
RECURSIVE enrichLoop(_, _, _, _, _)
enrichLoop(st, items, maps, overwrite, i) ==
  IF i > Len(items) THEN st
  ELSE enrichLoop(enrichRecord(st, enrichItem(items[i], items, maps, overwrite,
                                              normalizeTitle(Trim(items[i].title)))),
                  items, maps, overwrite, i + 1)

\* node import-local-album-metadata.mjs <albumRoot> <catalog.json> --apply, after
\* the files under albumRoot were read into maps
EnrichLocal(items, maps, overwrite) ==
  enrichLoop([items |-> <<>>, skippedAmbiguous |-> 0, songUpdated |-> 0, albumUpdated |-> 0,
              log |-> <<>>],
             items, maps, overwrite, 1)

\* ------------------------------------------------------------------------
\* The inputs the scripts are run on
\* ------------------------------------------------------------------------
tA == <<"a">>
tC == <<"c">>
tAB == <<"a", "b">>
tABupper == <<"A", "b">>
tCA == <<"c", "a">>
tB == <<"b">>
tABC == <<"a", "b", "c">>
tABspaceC == <<"a", "b", " ", "c">>

\* the store icons of a DistroKid album page, as parseStores returns them
StoreLinks ==
  <<Link("spotify", "Spotify", "https://open.spotify.com/album/1"),
    Link("instagram", "Instagram / Facebook", "")>>

DkTrack(trackNo, title, isrc) == [trackNo |-> trackNo, title |-> title, isrc |-> isrc]

\* the track lists of the modelled album pages, as parseTracks returns them
DkTrackLists ==
  {<<>>,
   <<DkTrack(1, tABspaceC, "I1"), DkTrack(2, tCA, "I2")>>,
   <<DkTrack(0, tCA, ""), DkTrack(0, tB, "")>>,
   <<DkTrack(1, tB, "I1"), DkTrack(2, tCA, "")>>}

\* title, release date and UPC of the modelled album pages
DkAlbumMetas ==
  {[title |-> tAB, releaseDate |-> "D1", upc |-> "U1"],
   [title |-> tAB, releaseDate |-> "D1", upc |-> ""],
   [title |-> <<>>, releaseDate |-> "", upc |-> ""],
   [title |-> tABupper, releaseDate |-> "D1", upc |-> "U2"]}

DkSnapshots ==
  {[albumuuid |-> u, title |-> m.title, artist |-> "R1", cover |-> "c1",
    releaseDate |-> m.releaseDate, upc |-> m.upc,
    links |-> IF u = "X1" THEN StoreLinks ELSE <<>>, tracks |-> tr] :
     u \in AlbumUuids, m \in DkAlbumMetas, tr \in DkTrackLists}

NeSong11 == [id |-> "11", name |-> tA, artist |-> "", cover |-> "", albumName |-> tABC]

\* the answers of https://music.163.com/api/v1/album/<albumId>
NeApis ==
  {[albumId |-> id,
    album |-> [name |-> n, artist |-> "R2", cover |-> "c2", releaseDate |-> "D2",
               size |-> IF songs = <<>> THEN NoCount ELSE Len(songs)],
    songs |-> songs] :
     id \in {"1", "2"}, n \in {<<>>, tABC}, songs \in {<<>>, <<NeSong11>>}}

\* an entry of the artist's album list together with the answer for that album
NeArtistInputs ==
  {[listed |-> [api.album EXCEPT !.name = tAB], api |-> api] :
     api \in {a \in NeApis : a.albumId = "1"}}

\* items exported by the other tools, as merge-items-to-catalog.mjs reads them
ExportedItems ==
  {[item |-> [BlankItem EXCEPT !.id = "a1", !.type = "album", !.title = tABC, !.upc = "U2",
                               !.links = <<Link("youtube", "YouTube", "https://youtu.be/1")>>],
    keys |-> {"id", "type", "title", "upc", "links"}],
   [item |-> [BlankItem EXCEPT !.id = "youtube-playlist-1", !.type = "album", !.title = tABC,
                               !.embeds = <<Embed("youtube", "YouTube", "https://youtu.be/e1", 200)>>],
    keys |-> {"id", "type", "title", "links", "embeds", "tags"}],
   [item |-> [BlankItem EXCEPT !.id = NeAlbumItemId("1"), !.type = "album", !.title = tAB,
                               !.artist = "R0",
                               !.links = <<Link("netease", "NetEase Album",
                                                "https://music.163.com/album?id=1")>>],
    keys |-> {"id", "type", "title", "artist", "links"}],
   [item |-> [BlankItem EXCEPT !.id = NeAlbumItemId("2"), !.type = "album", !.title = tAB,
                               !.releaseDate = "D1", !.trackCount = 2],
    keys |-> {"id", "type", "title", "releaseDate", "trackCount"}]}

\* A catalog.json kept by hand and by earlier runs: an album known by its UPC
\* only, an album known by title and date, a NetEase album with a YouTube
\* playlist embed, and one song of each.
SeedCatalog ==
  <<[BlankItem EXCEPT !.id = "a1", !.type = "album", !.title = PlaceholderAlbumTitle,
                      !.upc = "U1", !.tags = <<Word("manual")>>,
                      !.links = <<Link("Spotify ", "spotify", "")>>],
    [BlankItem EXCEPT !.id = "t1", !.type = "song", !.title = tC, !.collectionId = "a1"],
    [BlankItem EXCEPT !.id = "a2", !.type = "album", !.title = tAB, !.artist = "R0",
                      !.cover = "c0", !.releaseDate = "D1", !.trackCount = 5],
    [BlankItem EXCEPT !.id = "t2", !.type = "song", !.title = tAB, !.artist = "R0",
                      !.collectionId = "a2", !.isrc = "i1"],
    [BlankItem EXCEPT !.id = NeAlbumItemId("1"), !.type = "album", !.title = tAB,
                      !.artist = "R0", !.cover = "c0", !.releaseDate = "D0",
                      !.trackCount = 3,
                      !.tags = <<Word("netease"), Word("album"), Word("favourite")>>,
                      !.links = <<Link("netease", "NetEase Album", NeAlbumUrl("1"))>>,
                      !.embeds = <<Embed("youtube", "YouTube", "https://youtu.be/pl1", 200)>>],
    [BlankItem EXCEPT !.id = NeSongItemId("11"), !.type = "song", !.title = tAB,
                      !.artist = "R0", !.cover = "c0", !.releaseDate = "D0",
                      !.collectionId = NeAlbumItemId("1"),
                      !.tags = <<Word("netease"), Word("song"), Word("favourite")>>,
                      !.links = <<Link("netease", "NetEase Song", NeSongUrl("11"))>>,
                      !.embeds = <<Embed("netease", "NetEase Player", NePlayerUrl("11"), 86)>>,
                      !.lyrics = "la la"]>>

\* Two album pages of one title and date under two albumuuids: the first without
\* tracks, the second with two
PageFirst ==
  [albumuuid |-> "X2", title |-> tAB, artist |-> "R1", cover |-> "c1", releaseDate |-> "D1",
   upc |-> "", links |-> <<>>, tracks |-> <<>>]

PageTwin ==
  [albumuuid |-> "X1", title |-> tAB, artist |-> "R1", cover |-> "c1", releaseDate |-> "D1",
   upc |-> "", links |-> StoreLinks,
   tracks |-> <<DkTrack(1, tABspaceC, "I1"), DkTrack(2, tCA, "I2")>>]

\* The catalog the import of the two pages leaves: one album, distrokid-album-X2,
\* that the second page was merged into, with the tracks of the second page
TwoPagesCatalog == DkImport(DkImport(<<>>, PageFirst).items, PageTwin).items

SeedCatalogs == {<<>>, SeedCatalog, TwoPagesCatalog}

\* An album page without title, date and UPC and one with all three, each with
\* the two tracks that have no ISRC
SnapshotTitled ==
  [albumuuid |-> "X1", title |-> tAB, artist |-> "R1", cover |-> "c1", releaseDate |-> "D1",
   upc |-> "U1", links |-> StoreLinks, tracks |-> <<DkTrack(0, tCA, ""), DkTrack(0, tB, "")>>]

SnapshotUntitled ==
  [albumuuid |-> "X2", title |-> <<>>, artist |-> "R1", cover |-> "c1", releaseDate |-> "",
   upc |-> "", links |-> <<>>, tracks |-> <<DkTrack(0, tCA, ""), DkTrack(0, tB, "")>>]

SnapshotUntitledIsrc ==
  [SnapshotUntitled EXCEPT
     !.tracks = <<DkTrack(1, tABspaceC, "I1"), DkTrack(2, tCA, "I2")>>]

\* The catalogs import-local-album-metadata.mjs is run on: the seed, the catalog
\* two DistroKid imports leave (two DistroKid songs of one title in two albums),
\* and the seed after one DistroKid import (a DistroKid song and a NetEase song
\* of one title)
LocalCatalogs ==
  {SeedCatalog,
   DkImport(DkImport(<<>>, SnapshotTitled).items, SnapshotUntitled).items,
   DkImport(SeedCatalog, SnapshotUntitledIsrc).items}

\* the key of the song of the album "ab" titled "ca"
KeyAbCa == makeCompositeKey(tAB, tCA)

\* a meta JSON of a tracklist entry; a field it lacks is ""
Meta(duration, version, lyrics) ==
  [duration |-> duration, version |-> version, createdAt |-> "", inspiration |-> "",
   lyrics |-> lyrics]

\* What the files under albumRoot yield.  A lyric keyed by album and title comes
\* with a lyric keyed by the title alone (the file that gave the first gave the
\* second, unless a text at least as long was there); the bare-title meta is
\* the spread of every meta read for the title; the style tags of the album
\* "ab" are the moods of its tracklist.
LocalMaps ==
  {[lyricByTitle |-> l.byTitle, lyricByAlbumTitle |-> l.byAlbumTitle,
    moodByTitle |-> IF rest THEN (tCA :> "happy") @@ (tAB :> "calm") ELSE <<>>,
    moodByAlbumTitle |-> IF rest THEN (KeyAbCa :> "sad") ELSE <<>>,
    metaByTitle |-> IF rest THEN (tCA :> Meta("3:00", "v1", "L4")) @@ (tC :> Meta("", "v2", "NOISE"))
                    ELSE <<>>,
    metaByAlbumTitle |-> IF rest THEN (KeyAbCa :> Meta("2:00", "v1", "")) ELSE <<>>,
    albumStyleTagsByTitle |-> IF rest THEN (tAB :> <<"sad">>) ELSE <<>>] :
     l \in {[byTitle |-> <<>>, byAlbumTitle |-> <<>>],
            [byTitle |-> (tCA :> "L1 "), byAlbumTitle |-> <<>>],
            [byTitle |-> (tCA :> "L1 ") @@ (tAB :> "L2"), byAlbumTitle |-> <<>>],
            [byTitle |-> (tCA :> "L1 "), byAlbumTitle |-> (KeyAbCa :> "L3")],
            [byTitle |-> (tCA :> "L1 ") @@ (tAB :> "L2"), byAlbumTitle |-> (KeyAbCa :> "L3")]},
     rest \in BOOLEAN}

\* ------------------------------------------------------------------------
\* The state: catalog.json and the record of the runs made on it
\* ------------------------------------------------------------------------
VARIABLES
  catalog,   \* the items of catalog.json
  before,    \* the items before the last run
  run,       \* the last run: the script, its input and what it reported
  lastRun,   \* script and input of the run before that
  steps,     \* the number of runs so far
  limiter,   \* a limiter of fetch jobs: its limit, queue, counter and jobs
  calc,      \* a call of a pure function: its arguments and what it returned
  page,  \* the page of the site: its hash, the active platform and what is rendered
  ext   \* the snapshot extension: the widget of the page, its port and the service worker

vars == <<catalog, before, run, lastRun, steps, limiter, calc, page, ext>>

\* no limiter was created
NoLimiter == [script |-> "none"]

\* no function was called
NoCalc == [fn |-> "none"]

\* the site is not open
NoPage == [hash |-> "none"]

\* the extension is not installed
NoExt == [pos |-> "none"]

NoRun ==
  [kind |-> "none", input |-> <<>>, albumId |-> "", incomingId |-> "", matched |-> FALSE,
   canCreateTracks |-> FALSE, tracks |-> <<>>, skippedAmbiguous |-> 0, songUpdated |-> 0,
   albumUpdated |-> 0, log |-> <<>>]

Summary(r) == [kind |-> r.kind, input |-> r.input]

Init ==
  /\ catalog \in SeedCatalogs
  /\ before = catalog
  /\ run = NoRun
  /\ lastRun = Summary(NoRun)
  /\ steps = 0
  /\ limiter = NoLimiter
  /\ calc = NoCalc
  /\ page = NoPage
  /\ ext = NoExt

Record(kind, input, items) ==
  /\ steps < MaxSteps
  /\ steps' = steps + 1
  /\ before' = catalog
  /\ UNCHANGED <<limiter, calc, page, ext>>
  /\ lastRun' = Summary(run)
  /\ catalog' = items
  /\ run' = [NoRun EXCEPT !.kind = kind, !.input = input]

\* the JSON main prints after one page: the counters of lines 385-390
DkReport(r) ==
  [albumsFound |-> 1,
   albumsCreated |-> IF r.matched THEN 0 ELSE 1,
   albumsMerged |-> IF r.matched THEN 1 ELSE 0,
   tracksMatched |-> Cardinality({k \in 1..Len(r.tracks) : r.tracks[k].how \in {"isrc", "title"}}),
   tracksUpdated |-> Cardinality({k \in 1..Len(r.tracks) : r.tracks[k].how \in {"isrc", "title"}}),
   tracksCreated |-> Cardinality({k \in 1..Len(r.tracks) : r.tracks[k].how = "created"})]

\* The catalog is written back and the run recorded; r is what DkImport returns
RecordDistrokid(snap, r) ==
  /\ steps < MaxSteps
  /\ steps' = steps + 1
  /\ before' = catalog
  /\ UNCHANGED <<limiter, calc, page, ext>>
  /\ lastRun' = Summary(run)
  /\ catalog' = r.items
  /\ run' = [NoRun EXCEPT !.kind = "distrokid", !.input = snap, !.albumId = r.albumId,
                          !.incomingId = r.incomingId, !.matched = r.matched,
                          !.canCreateTracks = r.canCreateTracks, !.tracks = r.tracks,
                          !.log = DkReport(r)]

\* a release row as parseMymusicHtml returns it: no release date, no UPC
MmRelease(albumuuid, title) ==
  [albumuuid |-> albumuuid, title |-> title, artist |-> "R1", cover |-> "c1",
   trackCount |-> 2, links |-> <<Link("spotify", "Spotify", "")>>]

\* the My Music pages of the model: one row, or the two rows of both releases
MmPages ==
  {<<MmRelease(u, t)>> : u \in AlbumUuids, t \in {<<>>, tAB}}
    \cup {<<MmRelease("X1", tAB), MmRelease("X2", tABC)>>}

\* node import-distrokid-mymusic-html.mjs <mymusic.html> <catalog.json>
ImportDistrokidMymusic ==
  \E releases \in MmPages : Record("mymusic", releases, MymusicImport(catalog, releases))

\* node import-distrokid-album-html.mjs <album.html> <catalog.json>
ImportDistrokidAlbum ==
  \E snap \in DkSnapshots : RecordDistrokid(snap, DkImport(catalog, snap))

\* node sync-netease-albums-api.mjs <catalog.json> --album <albumId>
SyncNeteaseAlbum ==
  \E api \in NeApis : Record("neteaseAlbum", api, NeSyncAlbum(catalog, api))

\* node sync-netease-artist-albums-api.mjs <artistId> <catalog.json>, one album
SyncNeteaseArtistAlbum ==
  \E in \in NeArtistInputs :
    Record("neteaseArtist", in, NeSyncArtistAlbum(catalog, in.listed, in.api))

\* node merge-items-to-catalog.mjs <items.json> <catalog.json> --apply, one item
MergeExportedItem ==
  \E inc \in ExportedItems : Record("mergeItems", inc, MergeItem(catalog, inc))

Next ==
  \/ ImportDistrokidAlbum
  \/ ImportDistrokidMymusic
  \/ SyncNeteaseAlbum
  \/ SyncNeteaseArtistAlbum
  \/ MergeExportedItem

Spec == Init /\ [][Next]_vars

\* what may follow --treat-lyrics-placeholder-as-missing on the command line; ""
\* stands for a command line without the flag
LyricsPlaceholders == {"", "la la"}

\* The catalog is written back and the run recorded; r is what EnrichLocal returns
RecordLocal(input, r) ==
  /\ steps < MaxSteps
  /\ steps' = steps + 1
  /\ before' = catalog
  /\ UNCHANGED <<limiter, calc, page, ext>>
  /\ lastRun' = Summary(run)
  /\ catalog' = r.items
  /\ run' = [NoRun EXCEPT !.kind = "local", !.input = input,
                          !.skippedAmbiguous = r.skippedAmbiguous,
                          !.songUpdated = r.songUpdated, !.albumUpdated = r.albumUpdated,
                          !.log = r.log]

\* node import-local-album-metadata.mjs <albumRoot> <catalog.json> --apply [--overwrite]
\*   [--treat-lyrics-placeholder-as-missing <text>]
\* The loop over the arguments of main knows --apply, --overwrite and
\* --git-history; any other argument, the flag of the README and its text among
\* them, is passed over and sets nothing.
EnrichLocalMetadata ==
  \E maps \in LocalMaps, overwrite \in BOOLEAN, placeholder \in LyricsPlaceholders :
    RecordLocal([maps |-> maps, overwrite |-> overwrite, treatPlaceholder |-> placeholder],
                EnrichLocal(catalog, maps, overwrite))

InitLocal ==
  /\ catalog \in LocalCatalogs
  /\ before = catalog
  /\ run = NoRun
  /\ lastRun = Summary(NoRun)
  /\ steps = 0
  /\ limiter = NoLimiter
  /\ calc = NoCalc
  /\ page = NoPage
  /\ ext = NoExt

NextLocal == EnrichLocalMetadata

\* The local-metadata enrichment run on the catalogs the importers leave
SpecLocal == InitLocal /\ [][NextLocal]_vars

\* ------------------------------------------------------------------------
\* sync-netease-artist-albums-api.mjs, a run over the albums of an artist
\* ------------------------------------------------------------------------
\* One entry of the artist's album list, what fetchJson does for that album
\* (ok: it returns api; otherwise the answer is not res.ok and it throws)
NeArtistFetches(id) ==
  {[listed |-> [api.album EXCEPT !.name = tAB], api |-> api, ok |-> ok] :
     api \in {a \in NeApis : a.albumId = id}, ok \in BOOLEAN}

\* the artist has the albums 1 and 2
NeArtistBatches ==
  {<<f1, f2>> : f1 \in NeArtistFetches("1"), f2 \in NeArtistFetches("2")}

\* The loop `for (const a of artistAlbums)` of main: st.items is byId, st.threw
\* says that fetchJson threw, which ends the loop and main
RECURSIVE NeSyncArtistLoop(_, _)
NeSyncArtistLoop(st, batch) ==
  IF batch = <<>> THEN st
  ELSE IF ~Head(batch).ok THEN [st EXCEPT !.threw = TRUE]
  ELSE NeSyncArtistLoop([st EXCEPT !.items = NeSyncArtistAlbum(@, Head(batch).listed,
                                                               Head(batch).api)],
                        Tail(batch))

\* main: the catalog is written after the loop, which a throw does not reach
RecordArtist(batch, r) ==
  /\ steps < MaxSteps
  /\ steps' = steps + 1
  /\ before' = catalog
  /\ UNCHANGED <<limiter, calc, page, ext>>
  /\ lastRun' = Summary(run)
  /\ catalog' = IF r.threw THEN catalog ELSE r.items
  /\ run' = [NoRun EXCEPT !.kind = "neteaseArtistRun", !.input = batch]

\* node sync-netease-artist-albums-api.mjs <artistId> <catalog.json>
SyncNeteaseArtist ==
  \E batch \in NeArtistBatches :
    RecordArtist(batch, NeSyncArtistLoop([items |-> catalog, threw |-> FALSE], batch))

NextArtist == SyncNeteaseArtist

SpecArtist == Init /\ [][NextArtist]_vars

\* ------------------------------------------------------------------------
\* createLimiter of sync-netease-lyrics-api.mjs and sync-baidu-pan-share-lyrics.mjs
\* ------------------------------------------------------------------------
\* The values --concurrency can give the limiter, in halves: sync-netease-lyrics-api
\* takes Math.min(8, Math.floor(n)) for n > 0, which is 0 for 0 < n < 1;
\* sync-baidu-pan-share-lyrics takes Math.max(1, Math.min(16, Number(arg) || 4)),
\* which keeps a fraction
LimitHalves(script) ==
  IF script = "netease-lyrics" THEN {0, 2, 4} ELSE {2, 3, 4}

\* createLimiter(limit): nothing queued, nothing active.
\* q: the queued jobs; active: the counter; scheduled: jobs taken from the queue
\* whose fn is not called yet; running: jobs whose fn runs; settled: jobs whose fn
\* returned or threw and whose finally callback has not run; next: the next job
NewLimiter(script, halves) ==
  [script |-> script, limit2 |-> halves, q |-> <<>>, active |-> 0, scheduled |-> {},
   running |-> {}, settled |-> {}, failed |-> {}, next |-> 1]

\* next / runNext: takes one job from the queue unless the queue is empty or
\* active >= limit. sync-netease-lyrics-api calls job() at once; the other
\* limiter calls job.fn from Promise.resolve().then, a microtask later
runNext(l) ==
  IF l.q = <<>> \/ 2 * l.active >= l.limit2 THEN l
  ELSE IF l.script = "netease-lyrics"
  THEN [l EXCEPT !.q = Tail(@), !.active = @ + 1, !.running = @ \cup {Head(l.q)}]
  ELSE [l EXCEPT !.q = Tail(@), !.active = @ + 1, !.scheduled = @ \cup {Head(l.q)}]

\* limiter(fn): the job is queued and next is called
Submit ==
  /\ limiter.script # "none"
  /\ limiter.next <= MaxJobs
  /\ limiter' = runNext([limiter EXCEPT !.q = Append(@, limiter.next), !.next = @ + 1])
  /\ UNCHANGED <<catalog, before, run, lastRun, steps, calc, page, ext>>

\* the microtask of Promise.resolve().then(job.fn) calls fn
Begin ==
  /\ limiter.script # "none"
  /\ \E j \in limiter.scheduled :
       limiter' = [limiter EXCEPT !.scheduled = @ \ {j}, !.running = @ \cup {j}]
  /\ UNCHANGED <<catalog, before, run, lastRun, steps, calc, page, ext>>

\* fn returns
Complete ==
  /\ limiter.script # "none"
  /\ \E j \in limiter.running :
       limiter' = [limiter EXCEPT !.running = @ \ {j}, !.settled = @ \cup {j}]
  /\ UNCHANGED <<catalog, before, run, lastRun, steps, calc, page, ext>>

\* fn throws
Fail ==
  /\ limiter.script # "none"
  /\ \E j \in limiter.running :
       limiter' = [limiter EXCEPT !.running = @ \ {j}, !.settled = @ \cup {j},
                                  !.failed = @ \cup {j}]
  /\ UNCHANGED <<catalog, before, run, lastRun, steps, calc, page, ext>>

\* the finally callback of a settled job: active -= 1; next()
Finally ==
  /\ limiter.script # "none"
  /\ \E j \in limiter.settled :
       limiter' = runNext([limiter EXCEPT !.settled = @ \ {j}, !.active = @ - 1])
  /\ UNCHANGED <<catalog, before, run, lastRun, steps, calc, page, ext>>

InitLimiter ==
  /\ catalog = <<>>
  /\ before = catalog
  /\ run = NoRun
  /\ lastRun = Summary(NoRun)
  /\ steps = 0
  /\ calc = NoCalc
  /\ page = NoPage
  /\ ext = NoExt
  /\ \E script \in {"netease-lyrics", "baidu-lyrics"} :
       \E halves \in LimitHalves(script) : limiter = NewLimiter(script, halves)

NextLimiter ==
  \/ Submit
  \/ Begin
  \/ Complete
  \/ Fail
  \/ Finally

SpecLimiter == InitLimiter /\ [][NextLimiter]_vars

\* The scheduling of the limiter's callbacks. The microtasks that call job.fn
\* and the finally callbacks are run by the event loop; that a running job
\* settles is what its caller promises
FairLimiter ==
  \A j \in 1..MaxJobs :
    /\ WF_vars(Begin /\ j \in limiter.scheduled /\ j \in limiter'.running)
    /\ WF_vars((Complete \/ Fail) /\ j \in limiter.running /\ j \in limiter'.settled)
    /\ WF_vars(Finally /\ j \in limiter.settled /\ j \notin limiter'.settled)

SpecLimiterFair == InitLimiter /\ [][NextLimiter]_vars /\ FairLimiter

\* ------------------------------------------------------------------------
\* attach-youtube-playlist-by-index.mjs
\* ------------------------------------------------------------------------
\* the values of --playlist-id; the first lacks the six characters
\* isLikelyPlaylistId asks for
PlaylistIds == {"pl1", "OLAK5uy_1", "OLAK5uy_2"}

isLikelyPlaylistId(id) == id \in {"OLAK5uy_1", "OLAK5uy_2"}

playlistUrl(playlistId, index) ==
  IF index = 0 THEN "https://www.youtube.com/playlist?list=" \o playlistId
  ELSE "https://www.youtube.com/playlist?list=" \o playlistId \o "&index=" \o ToString(index)

playlistEmbedUrl(playlistId, index) ==
  IF index = 0 THEN "https://www.youtube.com/embed/videoseries?list=" \o playlistId
  ELSE "https://www.youtube.com/embed/videoseries?list=" \o playlistId
         \o "&index=" \o ToString(index)

\* upsertPlatformLink: the first link of the platform becomes { ...old, ...link },
\* which has platform, label and url of link; without one the link is pushed
upsertPlatformLink(links, link) ==
  IF platformKey(link.platform) = "" THEN links
  ELSE IF \E k \in 1..Len(links) : platformKey(links[k].platform) = platformKey(link.platform)
  THEN [links EXCEPT ![FirstIndex(links, LAMBDA l : platformKey(l.platform)
                                                     = platformKey(link.platform))] = link]
  ELSE Append(links, link)

\* upsertPlatformEmbed, in the same way
upsertPlatformEmbed(embeds, embed) ==
  IF platformKey(embed.platform) = "" THEN embeds
  ELSE IF \E k \in 1..Len(embeds) : platformKey(embeds[k].platform) = platformKey(embed.platform)
  THEN [embeds EXCEPT ![FirstIndex(embeds, LAMBDA e : platformKey(e.platform)
                                                       = platformKey(embed.platform))] = embed]
  ELSE Append(embeds, embed)

\* url of the first YouTube embed of the item, "" without one
getExistingYoutubeEmbedUrl(item) ==
  IF \E k \in 1..Len(item.embeds) : platformKey(item.embeds[k].platform) = "youtube"
  THEN StrTrim(item.embeds[FirstIndex(item.embeds,
                                      LAMBDA e : platformKey(e.platform) = "youtube")].url)
  ELSE ""

\* addTag(item, tag) of this script: pushed unless item.tags includes it
addTagToItem(tags, tag) == IF tag \in Range(tags) THEN tags ELSE Append(tags, tag)

\* the label of the link, whose separator is a middle dot in the script
PlaylistLinkLabel == "YouTube . Playlist"

\* main, "Attach to collection": link, embed and tag of the playlist
attachToCollection(item, playlistId) ==
  [item EXCEPT
     !.links = upsertPlatformLink(@, Link("youtube", PlaylistLinkLabel,
                                          playlistUrl(playlistId, 0))),
     !.embeds = upsertPlatformEmbed(@, Embed("youtube", "YouTube playlist embed",
                                             playlistEmbedUrl(playlistId, 0), 360)),
     !.tags = addTagToItem(@, Word("youtube"))]

\* main, one turn of "Attach to tracks by index" for a track without a YouTube
\* embed; index is its trackNo, or its place among the tracks when it has none
attachToTrack(t, playlistId, index) ==
  [t EXCEPT
     !.trackNo = index,
     !.links = upsertPlatformLink(@, Link("youtube", PlaylistLinkLabel,
                                          playlistUrl(playlistId, index))),
     !.embeds = upsertPlatformEmbed(@, Embed("youtube", "YouTube playlist embed",
                                             playlistEmbedUrl(playlistId, index), 220)),
     !.tags = addTagToItem(@, Word("youtube"))]

\* the places in items of the songs of the collection, in catalog order
TrackPlaces(items, collectionId) ==
  FilterSeq([k \in 1..Len(items) |-> k],
            {k \in 1..Len(items) : items[k].type = "song"
                                     /\ items[k].collectionId = collectionId})

\* the loop over tracks: places are the places of the tracks, i the turn
RECURSIVE attachLoop(_, _, _, _)
attachLoop(items, places, playlistId, i) ==
  IF i > Len(places) THEN items
  ELSE attachLoop(
         [items EXCEPT ![places[i]] =
            IF getExistingYoutubeEmbedUrl(@) # ""
            THEN [@ EXCEPT !.tags = addTagToItem(@, Word("youtube"))]
            ELSE attachToTrack(@, playlistId, IF @.trackNo # NoCount THEN @.trackNo ELSE i)],
         places, playlistId, i + 1)

\* main with --apply, once the collection and its tracks are found
AttachByIndex(items, collectionId, playlistId) ==
  attachLoop([items EXCEPT ![ItemIndex(items, collectionId)] =
                attachToCollection(@, playlistId)],
             TrackPlaces(items, collectionId), playlistId, 1)

\* node attach-youtube-playlist-by-index.mjs <catalog.json> --collection-id <id>
\*   --playlist-id <id> --apply; the script exits before it changes anything when
\* the playlist id is not one, the collection is not found or it has no tracks
AttachYoutubePlaylistByIndex ==
  \E collectionId \in Ids(catalog), playlistId \in PlaylistIds :
    /\ isLikelyPlaylistId(playlistId)
    /\ TrackPlaces(catalog, collectionId) # <<>>
    /\ Record("attachYoutube", [collectionId |-> collectionId, playlistId |-> playlistId],
              AttachByIndex(catalog, collectionId, playlistId))

NextAttach ==
  \/ AttachYoutubePlaylistByIndex
  \/ MergeExportedItem

SpecAttach == Init /\ [][NextAttach]_vars

\* ------------------------------------------------------------------------
\* attach-netease-to-distrokid.mjs
\* ------------------------------------------------------------------------
\* The character class of normalizeKey of this script, whose `\[\]` are escaped:
\* that of the DistroKid importer and "]", the curly and angle brackets and the
\* double angle quotes
AttachKeyClass == KeyClass \cup {"]", "{", "}", "<", ">", "LDANGLE", "RDANGLE"}

\* normalizeKey of attach-netease-to-distrokid.mjs
StripAttachClass(s) == FilterSeq(s, Range(s) \ AttachKeyClass)

normalizeKeyAttach(text) == StripAttachClass(Lower(Trim(Nfkc(text))))

\* first loop of mergeLinksByPlatform: the existing links, keyed by platform
RECURSIVE byPlatformExisting(_, _)
byPlatformExisting(byPlatform, existing) ==
  IF existing = <<>> THEN byPlatform
  ELSE IF platformKey(Head(existing).platform) = ""
  THEN byPlatformExisting(byPlatform, Tail(existing))
  ELSE byPlatformExisting(
         MapSet(byPlatform, platformKey(Head(existing).platform),
                [Head(existing) EXCEPT !.platform = StrTrim(@)]),
         Tail(existing))

\* what an incoming link makes of the entry prev of its platform p
fillLink(prev, l, p) ==
  [prev EXCEPT
     !.url = IF prev.url = "" /\ l.url # "" THEN l.url ELSE @,
     !.label = IF (prev.label = "" \/ StrLower(prev.label) = p) /\ l.label # ""
               THEN l.label ELSE @]

\* second loop of mergeLinksByPlatform
RECURSIVE byPlatformIncoming(_, _)
byPlatformIncoming(byPlatform, incoming) ==
  IF incoming = <<>> THEN byPlatform
  ELSE IF platformKey(Head(incoming).platform) = ""
  THEN byPlatformIncoming(byPlatform, Tail(incoming))
  ELSE IF ~MapHas(byPlatform, platformKey(Head(incoming).platform))
  THEN byPlatformIncoming(
         MapSet(byPlatform, platformKey(Head(incoming).platform),
                [Head(incoming) EXCEPT !.platform = StrTrim(@)]),
         Tail(incoming))
  ELSE byPlatformIncoming(
         MapSet(byPlatform, platformKey(Head(incoming).platform),
                fillLink(MapGet(byPlatform, platformKey(Head(incoming).platform)),
                         Head(incoming), platformKey(Head(incoming).platform))),
         Tail(incoming))

mergeLinksByPlatform(existing, incoming) ==
  MapValues(byPlatformIncoming(byPlatformExisting(<<>>, existing), incoming))

\* mergeEmbeds of attach-netease-to-distrokid.mjs: one entry per platform key and url
RECURSIVE mergeEmbedsByKeyLoop(_, _, _)
mergeEmbedsByKeyLoop(out, seen, rest) ==
  IF rest = <<>> THEN out
  ELSE IF Head(rest).url = "" \/ <<platformKey(Head(rest).platform), Head(rest).url>> \in seen
  THEN mergeEmbedsByKeyLoop(out, seen, Tail(rest))
  ELSE mergeEmbedsByKeyLoop(
         Append(out, [Head(rest) EXCEPT !.platform = StrTrim(@)]),
         seen \cup {<<platformKey(Head(rest).platform), Head(rest).url>>}, Tail(rest))

mergeEmbedsByKey(existing, incoming) == mergeEmbedsByKeyLoop(<<>>, {}, existing \o incoming)

\* id.startsWith("netease-album-"), over the ids the model can hold
StartsWithNeAlbum(id) == id \in {NeAlbumItemId("1"), NeAlbumItemId("2")}

isDistrokidAlbum(item) ==
  item.type = "album" /\ (StartsWithDkAlbum(item.id) \/ Word("distrokid") \in Range(item.tags))

isNeteaseAlbum(item) ==
  item.type = "album" /\ (StartsWithNeAlbum(item.id) \/ Word("netease") \in Range(item.tags))

\* the places of the NetEase albums whose title is that of the DistroKid album
\* and whose release date, when both have one, is its date
albumCandidates(items, dk) ==
  FilterSeq([k \in 1..Len(items) |-> k],
            {k \in 1..Len(items) :
               /\ isNeteaseAlbum(items[k])
               /\ normalizeKeyAttach(items[k].title) # <<>>
               /\ normalizeKeyAttach(items[k].title) = normalizeKeyAttach(items[dk].title)
               /\ \/ StrTrim(items[dk].releaseDate) = ""
                  \/ StrTrim(items[k].releaseDate) = ""
                  \/ StrTrim(items[k].releaseDate) = StrTrim(items[dk].releaseDate)})

\* the score of the tie-breaker of pickMatchedAlbum
countScore(dkCount, nCount) ==
  IF dkCount # NoCount /\ nCount # NoCount THEN (IF dkCount = nCount THEN 2 ELSE 0) ELSE 1

\* the tie-breaker: the first candidate of the best score
bestCandidate(items, dk, candidates) ==
  candidates[FirstIndex(candidates,
               LAMBDA a : \A b \in Range(candidates) :
                            countScore(items[dk].trackCount, items[b].trackCount)
                              <= countScore(items[dk].trackCount, items[a].trackCount))]

\* pickMatchedAlbum: the place of the NetEase album of the DistroKid album at
\* place dk, 0 for null
pickMatchedAlbum(items, dk) ==
  IF normalizeKeyAttach(items[dk].title) = <<>> \/ albumCandidates(items, dk) = <<>> THEN 0
  ELSE IF Len(albumCandidates(items, dk)) = 1 THEN albumCandidates(items, dk)[1]
  ELSE bestCandidate(items, dk, albumCandidates(items, dk))

\* the places of the songs of the item at place a
songsOf(items, a) ==
  FilterSeq([k \in 1..Len(items) |-> k],
            {k \in 1..Len(items) : items[k].type = "song"
                                     /\ items[k].collectionId = items[a].id})

\* pickMatchedTrack: the place of the NetEase track of the track at place t among
\* the places neTracks, 0 for null
pickMatchedTrack(items, t, neTracks) ==
  IF normalizeKeyAttach(items[t].title) = <<>> THEN 0
  ELSE IF \E k \in Range(neTracks) :
            normalizeKeyAttach(items[k].title) = normalizeKeyAttach(items[t].title)
  THEN neTracks[FirstIndex(neTracks,
                  LAMBDA k : normalizeKeyAttach(items[k].title)
                               = normalizeKeyAttach(items[t].title))]
  ELSE IF \E k \in Range(neTracks) :
            /\ normalizeKeyAttach(items[k].title) # <<>>
            /\ \/ Includes(normalizeKeyAttach(items[k].title), normalizeKeyAttach(items[t].title))
               \/ Includes(normalizeKeyAttach(items[t].title), normalizeKeyAttach(items[k].title))
  THEN neTracks[FirstIndex(neTracks,
                  LAMBDA k :
                    /\ normalizeKeyAttach(items[k].title) # <<>>
                    /\ \/ Includes(normalizeKeyAttach(items[k].title),
                                   normalizeKeyAttach(items[t].title))
                       \/ Includes(normalizeKeyAttach(items[t].title),
                                   normalizeKeyAttach(items[k].title)))]
  ELSE 0

\* the DistroKid albums main works on: all of them, or the one of --album
DistrokidAlbums(items, albumOnly) ==
  {a \in 1..Len(items) : isDistrokidAlbum(items[a]) /\ (albumOnly = "" \/ items[a].id = albumOnly)}

\* the place of the NetEase track main attaches to the item at place i, 0 when
\* the item is no track of a matched DistroKid album or has no NetEase track
attachedTrack(items, albumOnly, i) ==
  IF /\ items[i].type = "song"
     /\ \E a \in DistrokidAlbums(items, albumOnly) :
          items[i].collectionId = items[a].id /\ pickMatchedAlbum(items, a) # 0
  THEN pickMatchedTrack(
         items, i,
         songsOf(items, pickMatchedAlbum(items,
                          CHOOSE a \in DistrokidAlbums(items, albumOnly) :
                            items[i].collectionId = items[a].id
                              /\ pickMatchedAlbum(items, a) # 0)))
  ELSE 0

\* parseNeteaseNumericId: the text the group of the pattern
\* new RegExp("^" + prefix + "-(\\\\d+)$") captures, "" when the id does not match.
\* The pattern source holds two backslashes before d+: a backslash itself
\* followed by one or more letters d, so the group never holds a digit
parseNeteaseNumericId(itemId, prefix) ==
  IF /\ Len(itemId) > Len(prefix) + 2
     /\ SubSeq(itemId, 1, Len(prefix) + 2) = prefix \o "-\\"
     /\ \A k \in (Len(prefix) + 3)..Len(itemId) : SubSeq(itemId, k, k) = "d"
  THEN SubSeq(itemId, Len(prefix) + 2, Len(itemId))
  ELSE ""

\* neSongIdByTitle.get(normalizeKey(neTrack.title)) || parseNeteaseNumericId(neTrack.id):
\* the map keeps, for a title key, the id of the last NetEase track that has it
neSongIdOf(items, neTracks, ne) ==
  LET same == {k \in 1..Len(neTracks) :
                 normalizeKeyAttach(items[neTracks[k]].title)
                   = normalizeKeyAttach(items[ne].title)}
      last == CHOOSE k \in same : \A m \in same : m <= k
  IN IF same # {} /\ parseNeteaseNumericId(items[neTracks[last]].id, "netease-song") # ""
     THEN parseNeteaseNumericId(items[neTracks[last]].id, "netease-song")
     ELSE parseNeteaseNumericId(items[ne].id, "netease-song")

\* the place of the DistroKid album whose turn of the loop is the last to store
\* the track at place i
albumOfTrack(items, albumOnly, i) ==
  CHOOSE a \in DistrokidAlbums(items, albumOnly) :
    items[i].collectionId = items[a].id /\ pickMatchedAlbum(items, a) # 0

\* what main leaves of the item at place i.  Albums and tracks are read from the
\* items as they were read from the file
attachItem(items, albumOnly, i) ==
  IF i \in DistrokidAlbums(items, albumOnly) /\ pickMatchedAlbum(items, i) # 0
  THEN [items[i] EXCEPT
          !.links = mergeLinksByPlatform(@, items[pickMatchedAlbum(items, i)].links),
          !.neteaseAlbumId =
             IF parseNeteaseNumericId(items[pickMatchedAlbum(items, i)].id, "netease-album") # ""
             THEN parseNeteaseNumericId(items[pickMatchedAlbum(items, i)].id, "netease-album")
             ELSE @]
  ELSE IF attachedTrack(items, albumOnly, i) # 0
  THEN LET ne == attachedTrack(items, albumOnly, i)
           neAlbum == pickMatchedAlbum(items, albumOfTrack(items, albumOnly, i))
           neAlbumNumericId == parseNeteaseNumericId(items[neAlbum].id, "netease-album")
           neSongId == neSongIdOf(items, songsOf(items, neAlbum), ne)
       IN [items[i] EXCEPT
             !.links = mergeLinksByPlatform(@, items[ne].links),
             !.embeds = mergeEmbedsByKey(@, items[ne].embeds),
             !.neteaseAlbumId = IF neAlbumNumericId # "" THEN neAlbumNumericId ELSE @,
             !.neteaseSongId = IF neSongId # "" THEN neSongId ELSE @]
  ELSE items[i]

\* main with --apply
AttachNetease(items, albumOnly) ==
  [i \in 1..Len(items) |-> attachItem(items, albumOnly, i)]

\* the ids of the items main matched: albums and tracks
AttachMatched(items, albumOnly) ==
  {items[i].id : i \in {k \in 1..Len(items) :
     \/ k \in DistrokidAlbums(items, albumOnly) /\ pickMatchedAlbum(items, k) # 0
     \/ attachedTrack(items, albumOnly, k) # 0}}

\* A catalog two importers and a hand have worked on: a DistroKid album with a
\* Facebook link and its track, and two NetEase albums of that title and date,
\* the second with as many tracks as the DistroKid album and with its track
HandCatalog ==
  <<[BlankItem EXCEPT !.id = DkAlbumId("X1"), !.type = "album", !.title = tAB,
                      !.releaseDate = "D1", !.trackCount = 1,
                      !.tags = <<Word("distrokid"), Word("album")>>,
                      !.links = <<Link("facebook", "Facebook", "https://facebook.com/p"),
                                  Link("netease", "Link", "")>>],
    [BlankItem EXCEPT !.id = "isrc-I1", !.type = "song", !.title = tCA,
                      !.collectionId = DkAlbumId("X1"), !.isrc = "I1",
                      !.tags = <<Word("distrokid"), Word("song")>>,
                      !.embeds = <<Embed("NetEase", "NetEase Player", NePlayerUrl("12"), 86)>>],
    [BlankItem EXCEPT !.id = NeAlbumItemId("1"), !.type = "album", !.title = tABupper,
                      !.releaseDate = "D1", !.trackCount = 3,
                      !.tags = <<Word("netease"), Word("album")>>,
                      !.links = <<Link("netease", "NetEase Album", NeAlbumUrl("1"))>>],
    [BlankItem EXCEPT !.id = NeAlbumItemId("2"), !.type = "album", !.title = <<"a", " ", "b">>,
                      !.releaseDate = "D1", !.trackCount = 1,
                      !.tags = <<Word("netease"), Word("album")>>,
                      !.links = <<Link("netease", "NetEase Album", NeAlbumUrl("2")),
                                  Link("instagram", "Instagram", "https://instagram.com/p")>>],
    [BlankItem EXCEPT !.id = NeSongItemId("11"), !.type = "song", !.title = <<"c", "-", "a">>,
                      !.collectionId = NeAlbumItemId("2"),
                      !.tags = <<Word("netease"), Word("song")>>,
                      !.links = <<Link("netease", "NetEase Song", NeSongUrl("11"))>>,
                      !.embeds = <<Embed("netease", "NetEase Player", NePlayerUrl("11"), 86)>>]>>

\* node attach-netease-to-distrokid.mjs <catalog.json> --apply [--album <id>]
AttachNeteaseToDistrokid ==
  \E albumOnly \in {"", DkAlbumId("X1"), DkAlbumId("X2")} :
    /\ steps < MaxSteps
    /\ steps' = steps + 1
    /\ before' = catalog
    /\ UNCHANGED <<limiter, calc, page, ext>>
    /\ lastRun' = Summary(run)
    /\ catalog' = AttachNetease(catalog, albumOnly)
    /\ run' = [NoRun EXCEPT !.kind = "attachNetease", !.input = albumOnly,
                            !.log = AttachMatched(catalog, albumOnly)]

InitNetease ==
  /\ catalog \in SeedCatalogs \cup {HandCatalog}
  /\ before = catalog
  /\ run = NoRun
  /\ lastRun = Summary(NoRun)
  /\ steps = 0
  /\ limiter = NoLimiter
  /\ calc = NoCalc
  /\ page = NoPage
  /\ ext = NoExt

NextNetease ==
  \/ AttachNeteaseToDistrokid
  \/ SyncNeteaseAlbum
  \/ ImportDistrokidAlbum

SpecNetease == InitNetease /\ [][NextNetease]_vars

\* ------------------------------------------------------------------------
\* The link and embed mergers, called on their own
\* ------------------------------------------------------------------------
\* Links as catalog.json and the importers hold them: an untrimmed platform, a
\* Facebook link, a link without url and one without platform
LinkEntries ==
  {Link("spotify", "Spotify", "https://open.spotify.com/album/1"),
   Link("Spotify ", "spotify", ""),
   Link("facebook", "Facebook", "https://facebook.com/p"),
   Link("instagram", "Instagram", ""),
   Link("", "Link", "https://youtu.be/1")}

LinkLists ==
  {<<>>} \cup {<<a>> : a \in LinkEntries} \cup {<<a, b>> : a, b \in LinkEntries}

\* Embeds: two spellings of one platform, one without label, one without url
EmbedEntries ==
  {Embed("netease", "NetEase Player", NePlayerUrl("11"), 86),
   Embed("netease", "", NePlayerUrl("11"), 86),
   Embed("NetEase", "NetEase Player", NePlayerUrl("12"), 86),
   Embed("youtube", "YouTube", "", 200)}

EmbedLists ==
  {<<>>} \cup {<<a>> : a \in EmbedEntries} \cup {<<a, b>> : a, b \in EmbedEntries}

\* mergeEmbeds of the script: attach-netease-to-distrokid.mjs or a synchroniser
mergeEmbedsOf(script, existing, incoming) ==
  IF script = "attach" THEN mergeEmbedsByKey(existing, incoming)
  ELSE mergeEmbeds(existing, incoming, script)

\* the arguments of a call that was not made yet
Args(fn, script, a, b) == [fn |-> "args", of |-> fn, script |-> script, a |-> a, b |-> b]

\* a call f(a, b), with f(a, a) and f(out, out) for out = f(a, b)
Called(fn, a, b, out, self, again) ==
  [fn |-> fn, a |-> a, b |-> b, out |-> out, self |-> self, again |-> again]

ApplyMergeLinks ==
  /\ calc.fn = "args"
  /\ calc.of = "mergeLinks"
  /\ calc' = Called("mergeLinks", calc.a, calc.b, mergeLinks(calc.a, calc.b),
                    mergeLinks(calc.a, calc.a),
                    mergeLinks(mergeLinks(calc.a, calc.b), mergeLinks(calc.a, calc.b)))
  /\ UNCHANGED <<catalog, before, run, lastRun, steps, limiter, page, ext>>

ApplyMergeEmbeds ==
  /\ calc.fn = "args"
  /\ calc.of = "mergeEmbeds"
  /\ calc' = Called("mergeEmbeds", calc.a, calc.b,
                    mergeEmbedsOf(calc.script, calc.a, calc.b),
                    mergeEmbedsOf(calc.script, calc.a, calc.a),
                    mergeEmbedsOf(calc.script, mergeEmbedsOf(calc.script, calc.a, calc.b),
                                  mergeEmbedsOf(calc.script, calc.a, calc.b)))
  /\ UNCHANGED <<catalog, before, run, lastRun, steps, limiter, page, ext>>

MergeArgs ==
  {Args("mergeLinks", "distrokid", a, b) : a, b \in LinkLists}
    \cup UNION {{Args("mergeEmbeds", script, a, b) : a, b \in EmbedLists} :
                  script \in {"attach", "artist", "albumApi"}}

InitMerge ==
  /\ catalog = <<>>
  /\ before = catalog
  /\ run = NoRun
  /\ lastRun = Summary(NoRun)
  /\ steps = 0
  /\ limiter = NoLimiter
  /\ calc \in MergeArgs
  /\ page = NoPage
  /\ ext = NoExt

NextMerge ==
  \/ ApplyMergeLinks
  \/ ApplyMergeEmbeds

SpecMerge == InitMerge /\ [][NextMerge]_vars

\* ------------------------------------------------------------------------
\* sync-baidu-pan-share-lyrics.mjs: lyric files of a Baidu share, matched to the
\* songs of the catalog.  normalizeText and normalizeTitle are those above, the
\* script has the same two functions (lines 52-79).
\* ------------------------------------------------------------------------
\* stripLyricTitleSuffix: .replace(/\s*\(\d+\)\s*$/g, "") takes the copy number
\* off the name; the five replacements after it look for -vocal, -iphone,
\* formatted, pure and asr, words that no file name below holds
stripLyricTitleSuffix(title) ==
  LET t == Trim(title)
      d == BackRunLen(DropLast(t, 1), Digits)
  IN IF /\ t # <<>>
        /\ t[Len(t)] = ")"
        /\ d >= 1
        /\ Len(t) - 1 - d >= 1
        /\ t[Len(t) - 1 - d] = "("
     THEN Trim(DropLast(t, d + 2))
     ELSE t

\* /^[\s\-_--:]+/ of stripKnownAlbumPrefix: "EMDASH" is U+2014, "ENDASH" U+2013
PrefixSeparators == Spaces \cup {"-", "_", "EMDASH", "ENDASH", ":", "FW:"}

\* albumTitlePrefixes of main: the titles of the albums, collections and playlists
albumTitlePrefixes(items) ==
  {Trim(items[k].title) : k \in {n \in 1..Len(items) :
                                   items[n].type \in {"album", "collection", "playlist"}}}
    \ {<<>>}

\* the candidates the loop of stripKnownAlbumPrefix does not pass over
prefixesOf(items, t) ==
  {p \in albumTitlePrefixes(items) :
     /\ t # p
     /\ StartsWith(t, p)
     /\ RunLen(t, Len(p) + 1, PrefixSeparators) >= 1}

\* stripKnownAlbumPrefix: the candidates are tried longest first
stripKnownAlbumPrefix(items, title) ==
  IF prefixesOf(items, Trim(title)) = {} THEN Trim(title)
  ELSE LET p == CHOOSE q \in prefixesOf(items, Trim(title)) :
                  \A r \in prefixesOf(items, Trim(title)) : Len(r) <= Len(q)
       IN Trim(SliceFrom(Trim(title),
                         Len(p) + RunLen(Trim(title), Len(p) + 1, PrefixSeparators)))

\* the key of a lyric file; canonicalizeKey with an empty aliasMap trims
lyricFileKey(items, stem) ==
  Trim(normalizeTitle(stripKnownAlbumPrefix(items, stripLyricTitleSuffix(stem))))

\* The jobs of allCandidateLyricDocs, in the order they end: lyricsByKey keeps,
\* per key, the longest text that was fetched and is not noise
RECURSIVE lyricsByKeyOf(_, _, _)
lyricsByKeyOf(items, files, acc) ==
  IF files = <<>> THEN acc
  ELSE LET f == Head(files)
           key == lyricFileKey(items, f.stem)
       IN lyricsByKeyOf(items, Tail(files),
            IF key = <<>> \/ ~f.ok \/ isLyricsNoise(StrTrim(f.text)) THEN acc
            ELSE IF Has(acc, key) /\ Len(StrTrim(f.text)) <= Len(acc[key]) THEN acc
            ELSE (key :> StrTrim(f.text)) @@ acc)

\* isrcRows.get(isrc): the rows of the DistroKid tracks CSV files with the ISRC
isrcRowsOf(rows, isrc) == FilterSeq(rows, {r \in Range(rows) : StrUpper(StrTrim(r.isrc)) = isrc})

\* the text picked through the rows of an ISRC: the first row whose title has a lyric
RECURSIVE pickedByRows(_, _)
pickedByRows(rows, byKey) ==
  IF rows = <<>> THEN ""
  ELSE IF Has(byKey, Trim(normalizeTitle(stripLyricTitleSuffix(Head(rows).title))))
       THEN byKey[Trim(normalizeTitle(stripLyricTitleSuffix(Head(rows).title)))]
       ELSE pickedByRows(Tail(rows), byKey)

\* the text the loop `for (const it of items)` of main gives a song, "" if none
baiduLyricFor(it, byKey, rows, overwrite) ==
  IF it.type # "song" \/ Trim(it.title) = <<>> THEN ""
  ELSE IF ~overwrite /\ StrTrim(it.lyrics) # "" THEN ""
  ELSE IF Has(byKey, Trim(normalizeTitle(Trim(it.title))))
       THEN byKey[Trim(normalizeTitle(Trim(it.title)))]
  ELSE IF StrUpper(StrTrim(it.isrc)) = "" THEN ""
  ELSE pickedByRows(isrcRowsOf(rows, StrUpper(StrTrim(it.isrc))), byKey)

baiduSong(it, byKey, rows, overwrite) ==
  IF baiduLyricFor(it, byKey, rows, overwrite) = "" THEN it
  ELSE [it EXCEPT !.lyrics = baiduLyricFor(it, byKey, rows, overwrite)]

\* main from the share listing on: the items after the loop and the counter
SyncBaidu(items, share, overwrite) ==
  LET byKey == lyricsByKeyOf(items, share.files, <<>>)
  IN [items |-> [k \in 1..Len(items) |-> baiduSong(items[k], byKey, share.rows, overwrite)],
      updated |-> Cardinality({k \in 1..Len(items) :
                                 baiduLyricFor(items[k], byKey, share.rows, overwrite) # ""}),
      byKey |-> byKey]

LyricFile(stem, text, ok) == [stem |-> stem, text |-> text, ok |-> ok]

\* file names of a share, without extension: a title, an album title and a
\* title with a copy number, a track number and a title and "lrc"
fileCa == LyricFile(tCA, "L1", TRUE)
fileAbCaCopy == LyricFile(<<"a", "b", " ", "-", " ", "c", "a", " ", "(", "1", ")">>, "L1 long", TRUE)
fileTrackB == LyricFile(<<"0", "1", " ", "b", " ", "l", "r", "c">>, "L2", TRUE)
fileAbNoise == LyricFile(tAB, "NOISE", TRUE)
fileAbFailed == LyricFile(tAB, "L3", FALSE)
fileAb == LyricFile(tAB, "L3", TRUE)

\* What a share holds: the lyric documents and the rows of DistroKid_Tracks.csv
BaiduShares ==
  {[files |-> f, rows |-> r] :
     f \in {<<>>, <<fileCa>>, <<fileCa, fileAbCaCopy>>, <<fileTrackB, fileAbNoise>>,
            <<fileAbFailed>>, <<fileAb, fileCa>>},
     r \in {<<>>, <<[isrc |-> "I1", title |-> tCA]>>, <<[isrc |-> "i2", title |-> tB]>>}}

RecordBaidu(input, r) ==
  /\ steps < MaxSteps
  /\ steps' = steps + 1
  /\ before' = catalog
  /\ UNCHANGED <<limiter, calc, page, ext>>
  /\ lastRun' = Summary(run)
  /\ catalog' = IF input.apply /\ r.updated > 0 THEN r.items ELSE catalog
  /\ run' = [NoRun EXCEPT !.kind = "baiduLyrics", !.input = input,
                          !.songUpdated = r.updated, !.log = r.byKey]

\* node sync-baidu-pan-share-lyrics.mjs <catalog.json> --share <key> --pwd <code>
\*   [--apply] [--overwrite]
SyncBaiduLyrics ==
  \E share \in BaiduShares, overwrite \in BOOLEAN, apply \in BOOLEAN :
    RecordBaidu([share |-> share, overwrite |-> overwrite, apply |-> apply],
                SyncBaidu(catalog, share, overwrite))

NextBaidu == SyncBaiduLyrics

\* The lyric sync run on the catalogs the importers leave
SpecBaidu == InitLocal /\ [][NextBaidu]_vars

\* ------------------------------------------------------------------------
\* normalizeKey, called on two titles
\* ------------------------------------------------------------------------
\* Titles that are "abc", "ab" or "ca" but for white space, separators and
\* brackets, and one with the text the pattern of the importer does match
KeyTitles ==
  {tABC, tABspaceC, <<"a", "b", "-", "c">>, <<"a", "b", "(", "c", ")">>,
   <<"a", "b", "[", "c", "]">>, <<"a", "b", "(", "{", "}", "<", ">", "]", "c">>,
   tAB, tABupper, <<"a", " ", "b">>, <<"a", ".", "b">>, tCA, <<"c", "-", "a">>}

\* normalizeKey of import-distrokid-album-html.mjs and of
\* attach-netease-to-distrokid.mjs on the two titles
ApplyNormalizeKey ==
  /\ calc.fn = "args"
  /\ calc.of = "normalizeKey"
  /\ calc' = [fn |-> "normalizeKey", a |-> calc.a, b |-> calc.b,
              distrokid |-> <<normalizeKey(calc.a), normalizeKey(calc.b)>>,
              attach |-> <<normalizeKeyAttach(calc.a), normalizeKeyAttach(calc.b)>>]
  /\ UNCHANGED <<catalog, before, run, lastRun, steps, limiter, page, ext>>

InitKey ==
  /\ catalog = <<>>
  /\ before = catalog
  /\ run = NoRun
  /\ lastRun = Summary(NoRun)
  /\ steps = 0
  /\ limiter = NoLimiter
  /\ calc \in {Args("normalizeKey", "", a, b) : a, b \in KeyTitles}
  /\ page = NoPage
  /\ ext = NoExt

NextKey == ApplyNormalizeKey

SpecKey == InitKey /\ [][NextKey]_vars

\* ------------------------------------------------------------------------
\* Two album pages imported one after the other, in both orders
\* ------------------------------------------------------------------------
\* The catalogs the two pages are imported into: the seeds, and the catalog the
\* import of a page without tracks leaves
OrderCatalogs == SeedCatalogs \cup {DkImport(<<>>, PageFirst).items}

\* two runs of import-distrokid-album-html.mjs, of the page a then of the page b,
\* and two runs of b then a, on the same catalog.json
ImportBothOrders ==
  /\ calc.fn = "args"
  /\ calc.of = "importTwo"
  /\ calc' = [fn |-> "importTwo", a |-> calc.a, b |-> calc.b,
              first |-> DkImport(catalog, calc.a),
              second |-> DkImport(DkImport(catalog, calc.a).items, calc.b),
              firstOther |-> DkImport(catalog, calc.b),
              secondOther |-> DkImport(DkImport(catalog, calc.b).items, calc.a)]
  /\ UNCHANGED <<catalog, before, run, lastRun, steps, limiter, page, ext>>

InitOrder ==
  /\ catalog \in OrderCatalogs
  /\ before = catalog
  /\ run = NoRun
  /\ lastRun = Summary(NoRun)
  /\ steps = 0
  /\ limiter = NoLimiter
  /\ calc \in {Args("importTwo", "", a, b) : a, b \in DkSnapshots}
  /\ page = NoPage
  /\ ext = NoExt

NextOrder == ImportBothOrders

SpecOrder == InitOrder /\ [][NextOrder]_vars

\* ------------------------------------------------------------------------
\* The page of the site (app.js): the hash route, ACTIVE_PLATFORM and the
\* buttons that clear the platform
\* ------------------------------------------------------------------------
\* the platforms of the profile links, as catalog.json spells them
DockPlatforms == {"spotify", "YouTube"}

PlatformHash(platform) == "#/p/" \o platform

\* the hashes the links and buttons of the page lead to
Hashes == {"#/", "#/collections", "#/tracks", "#/c/a1"} \cup {PlatformHash(p) : p \in DockPlatforms}

parseHash(hash) ==
  IF hash = "#/collections" THEN [route |-> "collections", id |-> ""]
  ELSE IF hash = "#/tracks" THEN [route |-> "tracks", id |-> ""]
  ELSE IF \E p \in DockPlatforms : hash = PlatformHash(p)
       THEN [route |-> "platform", id |-> CHOOSE p \in DockPlatforms : hash = PlatformHash(p)]
  ELSE IF hash = "#/c/a1" THEN [route |-> "collection", id |-> "a1"]
  ELSE [route |-> "home", id |-> ""]

\* renderFilters: the chip "Platform: ... x" is there when a platform is active
renderFilters(pg) == [pg EXCEPT !.chip = pg.activePlatform # ""]

\* what every handler that clears the platform assigns: ACTIVE_PLATFORM and the
\* limits (of the two limits the one of the collections is modelled)
clearPlatform(pg) == [pg EXCEPT !.activePlatform = "", !.collectionLimit = 48]

\* rerender: on the platform route the platform of the hash becomes the active
\* one; the hero of that route has the button "Clear platform"
rerender(pg) ==
  renderFilters(
    IF parseHash(pg.hash).route = "platform"
    THEN [pg EXCEPT !.activePlatform = parseHash(pg.hash).id, !.collectionLimit = 48,
                    !.heroClear = TRUE]
    ELSE [pg EXCEPT !.heroClear = FALSE])

\* location.hash = hash: a hashchange event is queued when the hash changes
setHash(pg, hash) == [pg EXCEPT !.hash = hash, !.hashchange = pg.hashchange \/ hash # pg.hash]

Handled(pg, event) == [pg EXCEPT !.last = event]

\* main: the page is opened under some hash and rendered
InitPage ==
  /\ catalog = <<>>
  /\ before = catalog
  /\ run = NoRun
  /\ lastRun = Summary(NoRun)
  /\ steps = 0
  /\ limiter = NoLimiter
  /\ calc = NoCalc
  /\ ext = NoExt
  /\ \E hash \in Hashes :
       page = rerender([hash |-> hash, activePlatform |-> "", collectionLimit |-> 48,
                        chip |-> FALSE, heroClear |-> FALSE, hashchange |-> FALSE,
                        last |-> "main"])

\* window.addEventListener("hashchange", rerender)
HashChange ==
  /\ page.hashchange
  /\ page' = Handled(rerender([page EXCEPT !.hashchange = FALSE]), "hashchange")
  /\ UNCHANGED <<catalog, before, run, lastRun, steps, limiter, calc, ext>>

\* a link of the navigation or a tile: the hash is set
FollowLink ==
  /\ \E hash \in Hashes \ {PlatformHash(p) : p \in DockPlatforms} :
       page' = Handled(setHash(page, hash), "link")
  /\ UNCHANGED <<catalog, before, run, lastRun, steps, limiter, calc, ext>>

\* "Show more" of the collections: the click handler of #content
ShowMore ==
  /\ page.collectionLimit < 48 * (MaxMore + 1)
  /\ page' = Handled(rerender([page EXCEPT !.collectionLimit = @ + 48]), "more")
  /\ UNCHANGED <<catalog, before, run, lastRun, steps, limiter, calc, ext>>

\* a click on an icon of the dock: the handler of #profile-icons clears the
\* platform when the icon is that of the active platform, otherwise the link
\* #/p/<platform> is followed
ClickDockIcon ==
  /\ \E platform \in DockPlatforms :
       page' = Handled(
                 IF page.activePlatform # "" /\ platformKey(platform) = platformKey(page.activePlatform)
                 THEN setHash(renderFilters(clearPlatform(page)), "#/")
                 ELSE setHash(page, PlatformHash(platform)),
                 "dock")
  /\ UNCHANGED <<catalog, before, run, lastRun, steps, limiter, calc, ext>>

\* a click on the chip "Platform: ... x": the handler of #filters
ClickFilterChip ==
  /\ page.chip
  /\ page' = Handled(rerender(renderFilters(clearPlatform(page))), "chip")
  /\ UNCHANGED <<catalog, before, run, lastRun, steps, limiter, calc, ext>>

\* a click on "Clear platform" in the hero: the handler of #hero-actions
ClickHeroClear ==
  /\ page.heroClear
  /\ page' = Handled(setHash(renderFilters(clearPlatform(page)), "#/"), "hero")
  /\ UNCHANGED <<catalog, before, run, lastRun, steps, limiter, calc, ext>>

NextPage ==
  \/ HashChange
  \/ FollowLink
  \/ ShowMore
  \/ ClickDockIcon
  \/ ClickFilterChip
  \/ ClickHeroClear

SpecPage == InitPage /\ [][NextPage]_vars

\* ------------------------------------------------------------------------
\* tools/distrokid-snapshot-extension: content_mymusic.js and service_worker.js
\* ------------------------------------------------------------------------
\* The widget is on the page and nothing was clicked.
\* Page: exporting; collecting: the export clicks whose autoCollectAlbums has not
\* returned, by their number; toWorker, toPage: the messages of the port in
\* flight. Worker: running, cancelled, the counters of the run, pos: where the
\* loop of the run waits; id, download: the current download and its state in
\* the browser; snapshot: what chrome.downloads.search answered; events: the
\* onChanged events in flight; waiter: the key in pendingDownloadWaiters, 0 for
\* none; last: how the last task ended and the state its download had then.
\* clicks, cancels, gen, cancelledUpTo, started, finished, lateStart record
\* what happened: the run of which click, the last click whose Cancel the
\* worker handled, the tasks started and the DK_FINISHED messages of the run,
\* and whether a task was started for a click that Cancel had been handled for
NewExt ==
  [exporting |-> FALSE, collecting |-> <<>>, clicks |-> 0, cancels |-> 0,
   toWorker |-> <<>>, toPage |-> <<>>,
   running |-> FALSE, cancelled |-> FALSE, gen |-> 0, cancelledUpTo |-> 0,
   total |-> 0, left |-> 0, done |-> 0, failed |-> 0, started |-> 0, finished |-> 0,
   finishedMsg |-> [done |-> 0, failed |-> 0, cancelled |-> FALSE],
   pos |-> "idle", id |-> 0, download |-> "none", snapshot |-> "none", events |-> <<>>,
   waiter |-> 0, last |-> [id |-> 0, state |-> "none", how |-> "none"],
   lateStart |-> FALSE]

ExtStep(e) ==
  /\ ext' = e
  /\ UNCHANGED <<catalog, before, run, lastRun, steps, limiter, calc, page>>

\* the head of `for (const task of queue)` and what follows the loop: the next
\* task starts with its download requested, or DK_FINISHED is posted and
\* running is cleared
nextTask(e) ==
  IF e.left = 0 \/ e.cancelled
  THEN [e EXCEPT !.pos = "idle", !.running = FALSE, !.finished = @ + 1,
                 !.finishedMsg = [done |-> e.done, failed |-> e.failed,
                                  cancelled |-> e.cancelled],
                 !.toPage = Append(@, "DK_FINISHED")]
  ELSE [e EXCEPT !.pos = "download", !.left = @ - 1, !.started = @ + 1, !.id = @ + 1,
                 !.download = "none", !.snapshot = "none",
                 !.lateStart = @ \/ e.gen <= e.cancelledUpTo]

\* the task ends: how, and the state its download has
settled(e, how) == [e EXCEPT !.last = [id |-> e.id, state |-> e.download, how |-> how]]

\* done += 1 and the loop goes on
taskDone(e) == nextTask([settled(e, "done") EXCEPT !.done = @ + 1])

\* the catch clause without its counter
taskFailedUncounted(e, how) == nextTask(settled(e, how))

\* the catch clause: failed += 1 and the loop goes on
taskFailed(e, how) == nextTask([settled(e, how) EXCEPT !.failed = @ + 1])

\* click on "Export albums": nothing while exporting, else the collection of
\* the album list begins
ClickExport ==
  /\ ext.pos # "none"
  /\ ~ext.exporting
  /\ ext.clicks < MaxExports
  /\ ExtStep([ext EXCEPT !.exporting = TRUE, !.clicks = @ + 1,
                         !.collecting = Append(@, ext.clicks + 1)])

\* autoCollectAlbums returns to the click handler: without albums the handler
\* gives up, else it posts DK_EXPORT_ALBUMS
Collected ==
  /\ ext.pos # "none"
  /\ \E k \in 1..Len(ext.collecting) : \E n \in {0, MaxAlbums} :
       ExtStep([ext EXCEPT
                  !.collecting = SubSeq(@, 1, k - 1) \o SubSeq(@, k + 1, Len(@)),
                  !.exporting = IF n = 0 THEN FALSE ELSE @,
                  !.toWorker = IF n = 0 THEN @
                               ELSE Append(@, [type |-> "DK_EXPORT_ALBUMS",
                                               gen |-> ext.collecting[k], albums |-> n])])

\* click on "Cancel": the page posts DK_CANCEL
ClickCancel ==
  /\ ext.pos # "none"
  /\ ext.cancels < MaxCancels
  /\ ExtStep([ext EXCEPT !.exporting = FALSE, !.cancels = @ + 1,
                         !.toWorker = Append(@, [type |-> "DK_CANCEL", gen |-> ext.clicks,
                                                 albums |-> 0])])

\* the worker handles DK_CANCEL
HandleCancel ==
  /\ ext.pos # "none"
  /\ ext.toWorker # <<>>
  /\ Head(ext.toWorker).type = "DK_CANCEL"
  /\ ExtStep([ext EXCEPT !.toWorker = Tail(@), !.cancelled = TRUE,
                         !.cancelledUpTo = Head(ext.toWorker).gen])

\* the worker handles DK_EXPORT_ALBUMS: an error while a run is on, else the run
\* begins, up to the first await of its first task
HandleExport ==
  /\ ext.pos # "none"
  /\ ext.toWorker # <<>>
  /\ Head(ext.toWorker).type = "DK_EXPORT_ALBUMS"
  /\ ExtStep(IF ext.running
             THEN [ext EXCEPT !.toWorker = Tail(@), !.toPage = Append(@, "DK_ERROR")]
             ELSE nextTask([ext EXCEPT !.toWorker = Tail(@), !.running = TRUE,
                                       !.cancelled = FALSE,
                                       !.gen = Head(ext.toWorker).gen,
                                       !.total = Head(ext.toWorker).albums,
                                       !.left = Head(ext.toWorker).albums,
                                       !.done = 0, !.failed = 0, !.started = 0,
                                       !.finished = 0]))

\* chrome.downloads.download answers with an id; waitForDownload finds no
\* waiter of that id and asks chrome.downloads.search
DownloadBegins ==
  /\ ext.pos = "download"
  /\ ExtStep([ext EXCEPT !.pos = "query", !.download = "in_progress"])

\* chrome.downloads.download answers with an error
DownloadRefused ==
  /\ ext.pos = "download"
  /\ ExtStep(taskFailed(ext, "error"))

\* the browser ends the download the task waits for and fires onChanged
DownloadChanges ==
  /\ ext.pos \in {"query", "answered", "waiting"}
  /\ ext.download = "in_progress"
  /\ \E state \in {"complete", "interrupted"} :
       ExtStep([ext EXCEPT !.download = state,
                           !.events = Append(@, [id |-> ext.id, state |-> state])])

\* the browser answers chrome.downloads.search with the item as it is, or with
\* nothing (no item, or an error that .catch(() => []) swallows)
QueryAnswered ==
  /\ ext.pos = "query"
  /\ \E answer \in {ext.download, "none"} :
       ExtStep([ext EXCEPT !.pos = "answered", !.snapshot = answer])

\* waitForDownload after its await: returns, throws, or registers the waiter
QueryReturns ==
  /\ ext.pos = "answered"
  /\ ExtStep(IF ext.snapshot = "complete" THEN taskDone(ext)
             ELSE IF ext.snapshot = "interrupted" THEN taskFailed(ext, "interrupted")
             ELSE [ext EXCEPT !.pos = "waiting", !.waiter = ext.id])

\* the chrome.downloads.onChanged listener
DownloadEvent ==
  /\ ext.pos # "none"
  /\ ext.events # <<>>
  /\ ExtStep(IF ext.waiter # Head(ext.events).id THEN [ext EXCEPT !.events = Tail(@)]
             ELSE IF Head(ext.events).state = "complete"
             THEN taskDone([ext EXCEPT !.events = Tail(@), !.waiter = 0])
             ELSE taskFailed([ext EXCEPT !.events = Tail(@), !.waiter = 0], "interrupted"))

\* the timer of the waiter; it is far longer than an event is in flight
DownloadTimeout ==
  /\ ext.pos = "waiting"
  /\ ext.events = <<>>
  /\ ExtStep(taskFailed([ext EXCEPT !.waiter = 0], "timeout"))

\* the page handles DK_FINISHED or DK_ERROR
PageReceives ==
  /\ ext.pos # "none"
  /\ ext.toPage # <<>>
  /\ ExtStep([ext EXCEPT !.toPage = Tail(@), !.exporting = FALSE])

InitExport ==
  /\ catalog = <<>>
  /\ before = catalog
  /\ run = NoRun
  /\ lastRun = Summary(NoRun)
  /\ steps = 0
  /\ limiter = NoLimiter
  /\ calc = NoCalc
  /\ page = NoPage
  /\ ext = NewExt

NextExport ==
  \/ ClickExport
  \/ Collected
  \/ ClickCancel
  \/ HandleCancel
  \/ HandleExport
  \/ DownloadBegins
  \/ DownloadRefused
  \/ DownloadChanges
  \/ QueryAnswered
  \/ QueryReturns
  \/ DownloadEvent
  \/ DownloadTimeout
  \/ PageReceives

SpecExport == InitExport /\ [][NextExport]_vars

\* ------------------------------------------------------------------------
\* Properties
\* ------------------------------------------------------------------------
SameRunTwice == run.kind # "none" /\ lastRun = Summary(run)

\* C1: importing the same record twice in a row leaves the catalog as the first
\* import left it: the second import creates no item and changes no field
C1_ImportTwiceChangesNothing == SameRunTwice => catalog = before

\* C1 witness: the second of two DistroKid imports of one album page found its
\* album and merged two tracks into the songs the first import had left
C1_SecondImportMerged ==
  /\ SameRunTwice
  /\ run.kind = "distrokid"
  /\ run.matched
  /\ \E i, j \in 1..Len(run.tracks) :
       i # j /\ run.tracks[i].how = "isrc" /\ run.tracks[j].how \in {"isrc", "title"}

\* the item that has this id in the catalog of the run's end
After(id) == GetItem(catalog, id)

\* the entries of the last run's report that merged a track into an existing song
MergedTracks == {k \in 1..Len(run.tracks) : run.tracks[k].how \in {"isrc", "title"}}

CreatedTracks == {k \in 1..Len(run.tracks) : run.tracks[k].how = "created"}

\* C2: a merge leaves the merged item under the id it had: every item stays at
\* its place with its id, a matched album and a matched track are items the
\* catalog already held, the id derived for a merged record is not among the
\* new items, and the catalog grows only by the created tracks and by the album
\* when it was not matched and no item had its id
C2_MergeKeepsId ==
  /\ Len(before) <= Len(catalog)
  /\ \A i \in 1..Len(before) : catalog[i].id = before[i].id
  /\ run.kind = "distrokid" =>
       /\ run.matched =>
            /\ run.albumId \in Ids(before)
            /\ run.incomingId \in Ids(catalog) => run.incomingId \in Ids(before)
       /\ \A k \in MergedTracks :
            /\ run.tracks[k].id \in Ids(catalog)
            /\ run.tracks[k].derivedId \in Ids(catalog) \ Ids(before) =>
                 \E j \in CreatedTracks : run.tracks[j].id = run.tracks[k].derivedId
       /\ Len(catalog) = Len(before)
                         + (IF run.matched \/ run.incomingId \in Ids(before) THEN 0 ELSE 1)
                         + Cardinality(CreatedTracks)

\* C2 witness: an album page was merged into an album kept under another id, and
\* one of its tracks into a song kept under another id than the one derived
C2_MergedUnderOtherId ==
  /\ run.kind = "distrokid"
  /\ run.matched
  /\ run.incomingId # run.albumId
  /\ \E k \in MergedTracks : run.tracks[k].derivedId # run.tracks[k].id

\* C3: a collection that has a non-empty upc keeps it through every run
C3_UpcFirstWriterWins ==
  \A i \in 1..Len(before) :
    IsCollectionType(before[i]) /\ before[i].upc # "" =>
      \E j \in 1..Len(catalog) :
        catalog[j].id = before[i].id /\ catalog[j].upc = before[i].upc

\* C4: no item of the catalog has two links with the same normalized platform key
C4_OneLinkPerPlatform ==
  \A i \in 1..Len(catalog) :
    \A a, b \in 1..Len(catalog[i].links) :
      platformKey(catalog[i].links[a].platform) = platformKey(catalog[i].links[b].platform)
        => a = b

\* a title that counts as a value: neither empty nor a placeholder
IsRealTitle(title) ==
  title # <<>> /\ title # PlaceholderAlbumTitle /\ title # PlaceholderSongTitle

\* C5: a run changes no title, artist, cover, release date or track count that
\* the item had before it (a placeholder title counts as none)
C5_FillMissingKeepsScalars ==
  \A i \in 1..Len(before) :
    \A j \in 1..Len(catalog) :
      catalog[j].id = before[i].id =>
        /\ IsRealTitle(before[i].title) => catalog[j].title = before[i].title
        /\ before[i].artist # "" => catalog[j].artist = before[i].artist
        /\ before[i].cover # "" => catalog[j].cover = before[i].cover
        /\ before[i].releaseDate # "" => catalog[j].releaseDate = before[i].releaseDate
        /\ before[i].trackCount # NoCount => catalog[j].trackCount = before[i].trackCount

\* C6: every tag an item had before a run is among its tags after the run
C6_TagsNeverRemoved ==
  \A i \in 1..Len(before) :
    \A j \in 1..Len(catalog) :
      catalog[j].id = before[i].id => Range(before[i].tags) \subseteq Range(catalog[j].tags)

\* C7: every link platform and every embed (platform, url) an item had before a
\* run is on the item after the run
C7_LinksAndEmbedsKept ==
  \A i \in 1..Len(before) :
    \A j \in 1..Len(catalog) :
      catalog[j].id = before[i].id =>
        /\ \A l \in Range(before[i].links) :
             \E m \in Range(catalog[j].links) : platformKey(m.platform) = platformKey(l.platform)
        /\ \A e \in Range(before[i].embeds) :
             \E f \in Range(catalog[j].embeds) : f.platform = e.platform /\ f.url = e.url

\* the normalized title of the i-th item of the catalog the run read
SongKey(i) == normalizeTitle(Trim(before[i].title))

\* the songs that have the normalized title of the i-th item
SharedBy(i) == {j \in 1..Len(before) : before[j].type = "song" /\ SongKey(j) = SongKey(i)}

\* those of them that are DistroKid songs: the id starts with isrc-, or the
\* tags hold distrokid
DkSharedBy(i) ==
  {j \in SharedBy(i) :
     StartsWithIsrc(before[j].id) \/ Word("distrokid") \in Range(before[j].tags)}

\* the composite key of the i-th item, <<>> when its album has no title
AlbumScopedKey(i) ==
  compositeKeyOf(normalizeTitle(collectionTitle(before, before[i].collectionId)), SongKey(i))

\* the i-th item is a song for which the run has a lyric by its bare title and
\* nothing keyed by album and title
OnlyBareTitleLyric(i) ==
  /\ before[i].type = "song"
  /\ SongKey(i) # <<>>
  /\ Has(run.input.maps.lyricByTitle, SongKey(i))
  /\ \/ AlbumScopedKey(i) = <<>>
     \/ /\ ~Has(run.input.maps.lyricByAlbumTitle, AlbumScopedKey(i))
        /\ ~Has(run.input.maps.metaByAlbumTitle, AlbumScopedKey(i))

\* the attempts the last run marked as skipped
SkippedAttempts ==
  {<<i, step>> \in (1..Len(run.log)) \X {"lyric", "mood", "meta"} : run.log[i][step] = "skipped"}

TrackKey(k) ==
  normalizeKey(stripAlbumPrefix(run.input.tracks[k].title, After(run.albumId).title))

\* C9: a track merged by title has the normalized title of the song it was
\* merged into, or both normalized titles have two characters or more
C9_ContainmentNeedsTwoChars ==
  run.kind = "distrokid" =>
    \A k \in 1..Len(run.tracks) :
      run.tracks[k].how = "title" =>
        \/ normalizeKey(After(run.tracks[k].id).title) = TrackKey(k)
        \/ /\ Len(TrackKey(k)) >= 2
           /\ Len(normalizeKey(After(run.tracks[k].id).title)) >= 2

\* the songs the catalog held before the last run under another collection than
\* the one the run resolved
OtherSongs == {i \in 1..Len(before) : before[i].type = "song" /\ before[i].collectionId # run.albumId}

IsrcKey(isrc) == StrUpper(StrTrim(isrc))

SongsWithIsrc == {i \in 1..Len(catalog) : catalog[i].type = "song" /\ IsrcKey(catalog[i].isrc) # ""}

TracksBefore == {i \in 1..Len(before) : before[i].type = "song" /\ before[i].collectionId = run.albumId}

\* C12: an import creates tracks only under a collection that had no tracks
\* before the import
C12_CreatesOnlyForTracklessCollection ==
  run.kind = "distrokid" /\ CreatedTracks # {} => TracksBefore = {}

\* the album record the last run built from its page
Incoming == toIncomingAlbum(run.input)

\* the collections the catalog held that have the UPC of the incoming album
UpcCandidates ==
  {i \in 1..Len(before) :
     /\ StrTrim(Incoming.upc) # ""
     /\ IsCollectionType(before[i])
     /\ before[i].upc = StrTrim(Incoming.upc)}

\* those that have its release date and its normalized title
DateTitleCandidates ==
  {i \in 1..Len(before) :
     /\ StrTrim(Incoming.releaseDate) # ""
     /\ normalizeKey(Incoming.title) # <<>>
     /\ IsCollectionType(before[i])
     /\ before[i].releaseDate = StrTrim(Incoming.releaseDate)
     /\ normalizeKey(before[i].title) = normalizeKey(Incoming.title)}

\* the items that record its albumuuid
UuidCandidates ==
  {i \in 1..Len(before) : Incoming.albumuuid # "" /\ before[i].albumuuid = Incoming.albumuuid}

\* the place in the catalog of the item the album was resolved to
Resolved == ItemIndex(before, run.albumId)

\* C13: the album is resolved by UPC if a collection has its UPC; otherwise by
\* release date and normalized title if a collection has both; otherwise by
\* albumuuid if an item records it; otherwise it is new
C13_UpcThenDateTitleThenUuid ==
  run.kind = "distrokid" =>
    IF UpcCandidates # {} THEN run.matched /\ Resolved \in UpcCandidates
    ELSE IF DateTitleCandidates # {} THEN run.matched /\ Resolved \in DateTitleCandidates
    ELSE IF UuidCandidates # {} THEN run.matched /\ Resolved \in UuidCandidates
    ELSE ~run.matched

\* C13 witness: one collection had the UPC of the page and another its date and
\* title (or its albumuuid), and the page was merged into the first
C13_UpcWonOverDateTitle ==
  /\ run.kind = "distrokid"
  /\ run.matched
  /\ Resolved \in UpcCandidates
  /\ (DateTitleCandidates \cup UuidCandidates) \ UpcCandidates # {}
  /\ Resolved \notin DateTitleCandidates \cup UuidCandidates

\* the candidates of the strategy that resolved the album
StrategyCandidates ==
  IF UpcCandidates # {} THEN UpcCandidates
  ELSE IF DateTitleCandidates # {} THEN DateTitleCandidates
  ELSE {i \in UuidCandidates : IsCollectionType(before[i])}

\* the candidates with as many tracks as the page lists
SameCountCandidates ==
  {i \in StrategyCandidates :
     Incoming.trackCount # NoCount /\ before[i].trackCount = Incoming.trackCount}

\* C14: when the strategy that resolved the album had several candidate
\* collections and one of them has the trackCount of the incoming album, the
\* album is resolved to a candidate with that trackCount
C14_TrackCountBreaksTies ==
  /\ run.kind = "distrokid"
  /\ run.matched
  /\ Cardinality(StrategyCandidates) > 1
  /\ SameCountCandidates # {}
  => Resolved \in SameCountCandidates

\* C15: no two tracks of one page are merged into the same item: once a track
\* of the page was merged into an item, a later track of the page that resolves
\* to that item is skipped
C15_SecondRecordSkipped ==
  run.kind = "distrokid" =>
    \A k, l \in MergedTracks : run.tracks[k].id = run.tracks[l].id => k = l

\* C16: every item the catalog held before the run is in the catalog after it,
\* at its place and under its id
C16_NoItemRemoved ==
  run.kind # "none" =>
    /\ Len(catalog) >= Len(before)
    /\ \A i \in 1..Len(before) : catalog[i].id = before[i].id

\* C16 witness: a DistroKid import merged its album into an item kept under
\* another id, changed items the catalog held and added new ones
C16_MergedAndCreated ==
  /\ run.kind = "distrokid"
  /\ run.matched
  /\ run.albumId # run.incomingId
  /\ Len(catalog) > Len(before)
  /\ \E i \in 1..Len(before) : catalog[i] # before[i]

\* the albums of the artist whose fetch succeeded in the last run
FetchedAlbums == {k \in 1..Len(run.input) : run.input[k].ok}

\* C17: after a run over the albums of an artist, every album whose fetch
\* succeeded is in the catalog, whether or not the fetch of another album failed
C17_FetchedAlbumsPersisted ==
  run.kind = "neteaseArtistRun" =>
    \A k \in FetchedAlbums : HasItem(catalog, NeAlbumItemId(run.input[k].api.albumId))

\* C18: the number of jobs running under a limiter is at most its limit
C18_AtMostLimitRunning == 2 * Cardinality(limiter.running) <= limiter.limit2

\* C19: after a playlist is attached, every embed an item had is still on the
\* item with its platform and its URL: an embed of the same platform with
\* another URL is added beside it and does not replace it
C19_EmbedOfOtherUrlKept ==
  run.kind = "attachYoutube" =>
    \A i \in 1..Len(before) :
      \A e \in Range(before[i].embeds) :
        \E f \in Range(catalog[i].embeds) :
          platformKey(f.platform) = platformKey(e.platform) /\ f.url = e.url

\* a label that may give way to an incoming one: empty, the platform key or "Link"
IsBareLabel(label, key) == label = "" \/ StrLower(StrTrim(label)) = key \/ label = "Link"

\* C20: after a playlist is attached, every link an item had is still the link
\* of its platform, with its url unless that was empty and with its label
\* unless that was empty, the platform key or "Link"
C20_ExistingUrlAndLabelKept ==
  run.kind = "attachYoutube" =>
    \A i \in 1..Len(before) :
      \A l \in Range(before[i].links) :
        \E m \in Range(catalog[i].links) :
          /\ platformKey(m.platform) = platformKey(l.platform)
          /\ l.url # "" => m.url = l.url
          /\ ~IsBareLabel(l.label, platformKey(l.platform)) => m.label = l.label

\* C21: after NetEase links are attached, no item whose links were merged has a
\* link of the platform key facebook
C21_NoFacebookAfterMerge ==
  run.kind = "attachNetease" =>
    \A i \in 1..Len(catalog) :
      catalog[i].id \in run.log =>
        \A l \in Range(catalog[i].links) : platformKey(l.platform) # "facebook"

SharesBareTitle(items, i) ==
  \E j \in 1..Len(items) :
    /\ j # i
    /\ items[j].type = "song"
    /\ normalizeTitle(items[j].title) = normalizeTitle(items[i].title)

\* C23: a song whose normalized title another song has, that no row of the
\* tracks CSV names by ISRC and no file names by album and title, keeps its
\* lyrics in the lyric sync of a Baidu share
C23_SharedBareTitleLeftAlone ==
  run.kind = "baiduLyrics" =>
    \A i \in 1..Len(before) :
      ( /\ before[i].type = "song"
        /\ SharesBareTitle(before, i)
        /\ isrcRowsOf(run.input.share.rows, StrUpper(StrTrim(before[i].isrc))) = <<>>
        /\ \A f \in Range(run.input.share.files) :
             stripKnownAlbumPrefix(before, stripLyricTitleSuffix(f.stem))
               = stripLyricTitleSuffix(f.stem) )
      => catalog[i].lyrics = before[i].lyrics

\* the title without its white space, separator, punctuation and bracket characters
WithoutSeparators(title) == FilterSeq(title, Range(title) \ AttachKeyClass)

\* C24: two titles that differ only in white space, punctuation, separator or
\* bracket characters have the same key, in the DistroKid importer and in the
\* NetEase attacher
C24_SameKeyUpToSeparators ==
  (calc.fn = "normalizeKey" /\ WithoutSeparators(calc.a) = WithoutSeparators(calc.b))
    => /\ calc.distrokid[1] = calc.distrokid[2]
       /\ calc.attach[1] = calc.attach[2]

\* the album the page was merged into, as it was and as it is
AlbumWas == before[Resolved]
AlbumIs == GetItem(catalog, run.albumId)

\* the page was resolved by UPC to an album of another title or release date
MatchedByUpcAndDiffers ==
  /\ run.kind = "distrokid"
  /\ run.matched
  /\ Resolved \in UpcCandidates
  /\ Incoming.title # AlbumWas.title \/ Incoming.releaseDate # AlbumWas.releaseDate

\* C25 as stated: a collection matched by UPC keeps its title, if it has one,
\* and its release date, if it has one
C25_KeepsAnyTitleAndDate ==
  MatchedByUpcAndDiffers =>
    /\ AlbumWas.title # <<>> => AlbumIs.title = AlbumWas.title
    /\ AlbumWas.releaseDate # "" => AlbumIs.releaseDate = AlbumWas.releaseDate

\* C25: a collection matched by UPC keeps its title, unless that is empty or
\* the placeholder for an album without title, which the incoming title
\* replaces, and keeps its release date, unless that is empty
C25_KeepsRealTitleAndDate ==
  MatchedByUpcAndDiffers =>
    /\ AlbumIs.title = IF AlbumWas.title \in {<<>>, PlaceholderAlbumTitle}
                       THEN Incoming.title ELSE AlbumWas.title
    /\ AlbumIs.releaseDate = IF AlbumWas.releaseDate = "" THEN Incoming.releaseDate
                             ELSE AlbumWas.releaseDate

\* C25 witness: the album matched by UPC had a title of its own, the page
\* another, and the album has its title still
C25_TitleOfItsOwnKept ==
  /\ MatchedByUpcAndDiffers
  /\ AlbumWas.title \notin {<<>>, PlaceholderAlbumTitle}
  /\ Incoming.title # AlbumWas.title
  /\ AlbumIs.title = AlbumWas.title

\* the collections of the items
Collections(items) == {i \in 1..Len(items) : IsCollectionType(items[i])}

\* C26: after the import of a page whose UPC a collection titled with the
\* placeholder has, that collection has the title of the page and its UPC, and
\* the catalog has as many collections as before
C26_PlaceholderReplacedUpcKept ==
  run.kind = "distrokid" =>
    \A i \in UpcCandidates :
      before[i].title = PlaceholderAlbumTitle =>
        /\ GetItem(catalog, before[i].id).title = Incoming.title
        /\ GetItem(catalog, before[i].id).upc = before[i].upc
        /\ Cardinality(Collections(catalog)) = Cardinality(Collections(before))

\* C26 witness: a page with a title was imported and a collection titled with
\* the placeholder had its UPC
C26_PlaceholderHadTheUpc ==
  /\ run.kind = "distrokid"
  /\ Incoming.title # PlaceholderAlbumTitle
  /\ \E i \in UpcCandidates :
       /\ before[i].title = PlaceholderAlbumTitle
       /\ GetItem(catalog, before[i].id).title = Incoming.title

\* the tracks of the page that the import merged into the item with the id, in
\* the order of the page
MergedInto(id) ==
  {k \in 1..Len(run.tracks) : run.tracks[k].how \in {"isrc", "title"} /\ run.tracks[k].id = id}

\* the ISRC of the k-th track of the page, as the importer reads it
IncomingIsrc(k) == StrUpper(StrTrim(run.input.tracks[k].isrc))

\* the ISRC the merges give a track without ISRC: that of the first track merged
\* into it that has one
FilledIsrc(id) ==
  IF \A k \in MergedInto(id) : IncomingIsrc(k) = "" THEN ""
  ELSE IncomingIsrc(CHOOSE k \in MergedInto(id) :
                      /\ IncomingIsrc(k) # ""
                      /\ \A m \in MergedInto(id) : IncomingIsrc(m) # "" => k <= m)

\* C27: a track the catalog held, into which the import merged tracks of the
\* page by title or by ISRC, has the title it had, and the ISRC it had or, if
\* it had none, the ISRC of the page's track
C27_IsrcFilledTitleKept ==
  run.kind = "distrokid" =>
    \A i \in 1..Len(before) :
      (before[i].type = "song" /\ MergedInto(before[i].id) # {}) =>
        /\ GetItem(catalog, before[i].id).title = before[i].title
        /\ GetItem(catalog, before[i].id).isrc =
             IF before[i].isrc = "" THEN FilledIsrc(before[i].id) ELSE before[i].isrc

\* C27 witness: a track without ISRC was matched by title, under a title that is
\* not the page's, and has the ISRC of the page's track
C27_FilledByTitleMatch ==
  /\ run.kind = "distrokid"
  /\ \E i \in 1..Len(before), k \in 1..Len(run.tracks) :
       /\ before[i].type = "song"
       /\ before[i].isrc = ""
       /\ run.tracks[k].how = "title"
       /\ run.tracks[k].id = before[i].id
       /\ run.input.tracks[k].title # before[i].title
       /\ IncomingIsrc(k) # ""
       /\ GetItem(catalog, before[i].id).isrc = IncomingIsrc(k)
       /\ GetItem(catalog, before[i].id).title = before[i].title

\* C28: the album a page with tracks was merged into has as trackCount the
\* number of tracks of the page
C28_TrackCountIsDerivedCount ==
  (run.kind = "distrokid" /\ run.matched /\ Len(run.input.tracks) > 0) =>
    AlbumIs.trackCount = Len(run.input.tracks)

\* the entities an import touched: the album it resolved, merged into, replaced
\* or created, the tracks it merged into, and the ids of the tracks it created
\* or found taken
Touched(r) ==
  {r.albumId}
    \cup {r.tracks[k].id : k \in {n \in 1..Len(r.tracks) : r.tracks[n].how \in {"isrc", "title"}}}
    \cup {r.tracks[k].derivedId :
            k \in {n \in 1..Len(r.tracks) : r.tracks[n].how \in {"created", "idTaken"}}}

\* in either order the two imports touched no entity in common
TouchDisjoint ==
  /\ Touched(calc.first) \cap Touched(calc.second) = {}
  /\ Touched(calc.firstOther) \cap Touched(calc.secondOther) = {}

\* C29: two pages whose imports, in either order, touch disjoint sets of
\* entities leave the same items in the catalog whichever is imported first
C29_DisjointImportsCommute ==
  (calc.fn = "importTwo" /\ TouchDisjoint) =>
    Range(calc.second.items) = Range(calc.secondOther.items)

\* C29 witness: two imports that touch disjoint entities, each of which created
\* items, and that leave the items in another order in catalog.json
C29_BothCreatedDisjoint ==
  /\ calc.fn = "importTwo"
  /\ TouchDisjoint
  /\ Len(calc.first.items) > Len(catalog)
  /\ Len(calc.second.items) > Len(calc.first.items)
  /\ calc.second.items # calc.secondOther.items
  /\ Range(calc.second.items) = Range(calc.secondOther.items)

\* the tracks of the page that the import neither merged nor created
DroppedTracks == {k \in 1..Len(run.tracks) : run.tracks[k].how \in {"noCreate", "idTaken"}}

\* C30: the report of an import counts every track of the page; its counters of
\* tracks are tracksMatched (with tracksUpdated, the same number) and
\* tracksCreated, so that no track is left that was neither merged nor created
C30_DroppedTracksReported ==
  run.kind = "distrokid" =>
    /\ Len(run.tracks) = Len(run.input.tracks)
    /\ DOMAIN run.log = {"albumsFound", "albumsCreated", "albumsMerged", "tracksMatched",
                         "tracksUpdated", "tracksCreated"}
    /\ Cardinality(DroppedTracks) = Len(run.tracks) - run.log.tracksMatched - run.log.tracksCreated
    /\ Len(run.input.tracks) = run.log.tracksMatched + run.log.tracksCreated

\* the i-th item is a song for which the last run found a lyric that is not
\* noise, by bare title only, and whose title no two DistroKid songs share
RealLyricFound(i) ==
  /\ OnlyBareTitleLyric(i)
  /\ Cardinality(DkSharedBy(i)) <= 1
  /\ ~isLyricsNoise(run.input.maps.lyricByTitle[SongKey(i)])

\* C31: in a run with --treat-lyrics-placeholder-as-missing P and without
\* --overwrite, a song whose lyrics are P gets the lyric found for it, and a
\* song with other lyrics keeps them
C31_PlaceholderLyricsReplaced ==
  (run.kind = "local" /\ run.input.treatPlaceholder # "" /\ ~run.input.overwrite) =>
    \A i \in 1..Len(before) :
      before[i].type = "song" =>
        /\ (before[i].lyrics = run.input.treatPlaceholder /\ RealLyricFound(i))
             => catalog[i].lyrics = StrTrim(run.input.maps.lyricByTitle[SongKey(i)])
        /\ StrTrim(before[i].lyrics) \notin {"", run.input.treatPlaceholder}
             => catalog[i].lyrics = before[i].lyrics

\* C32: when the click on the chip "Platform: ... x" has been handled, no
\* platform is active
C32_ChipClearsPlatform ==
  page.hash # "none" /\ page.last = "chip" => page.activePlatform = ""

\* C33: no two collections of the catalog carry the same DistroKid albumuuid
C33_OneCollectionPerAlbumuuid ==
  \A u \in AlbumUuids :
    Cardinality({i \in Collections(catalog) : catalog[i].albumuuid = u}) <= 1

\* C34: the item an album page is resolved to is a collection (type album or
\* collection), never a track
C34_MatchIsACollection ==
  (run.kind = "distrokid" /\ run.matched) => IsCollectionType(before[Resolved])

\* the text after "<prefix>-" of an id, and whether it is one or more digits
IdTail(id, prefix) == SubSeq(id, Len(prefix) + 2, Len(id))

IsDigits(s) ==
  /\ Len(s) > 0
  /\ \A k \in 1..Len(s) :
       SubSeq(s, k, k) \in {"0", "1", "2", "3", "4", "5", "6", "7", "8", "9"}

HasNumericId(it, prefix) ==
  /\ Len(it.id) > Len(prefix) + 1
  /\ SubSeq(it.id, 1, Len(prefix) + 1) = prefix \o "-"
  /\ IsDigits(IdTail(it.id, prefix))

\* the DistroKid albums the last run of attach-netease-to-distrokid matched, by
\* their place in the catalog the run read
AttachedAlbums ==
  {i \in DistrokidAlbums(before, run.input) : pickMatchedAlbum(before, i) # 0}

AttachedTracks == {i \in 1..Len(before) : attachedTrack(before, run.input, i) # 0}

\* C39: after attach-netease-to-distrokid, a DistroKid album matched to
\* netease-album-<digits> has those digits as refs.netease.albumId, and a track
\* matched to netease-song-<digits> has those digits as refs.netease.songId
C39_NeteaseRefsAreTheDigits ==
  run.kind = "attachNetease" =>
    /\ \A i \in AttachedAlbums :
         HasNumericId(before[pickMatchedAlbum(before, i)], "netease-album") =>
           catalog[i].neteaseAlbumId
             = IdTail(before[pickMatchedAlbum(before, i)].id, "netease-album")
    /\ \A i \in AttachedTracks :
         HasNumericId(before[attachedTrack(before, run.input, i)], "netease-song") =>
           catalog[i].neteaseSongId
             = IdTail(before[attachedTrack(before, run.input, i)].id, "netease-song")

\* the jobs of the limiter that wait in its queue
Queued == {limiter.q[k] : k \in 1..Len(limiter.q)}

\* C38: a job submitted to a limiter is eventually started, and a job that was
\* submitted and has not settled eventually settles, whether the jobs before
\* it return or throw
C38_EveryJobStartsAndSettles ==
  \A j \in 1..MaxJobs :
    /\ (j \in Queued \cup limiter.scheduled) ~> (j \in limiter.running)
    /\ (j \in Queued \cup limiter.scheduled \cup limiter.running) ~> (j \in limiter.settled)

\* C35: a task whose download was complete when its wait ended was counted as
\* done, not as a timeout, and no waiter of that download is left
C35_CompleteIsNeverTimeout ==
  (ext.pos # "none" /\ ext.last.state = "complete") =>
    (ext.last.how = "done" /\ ext.waiter # ext.last.id)

\* C36: the worker starts no task for an export click after it has handled the
\* Cancel that followed that click
C36_NoTaskAfterCancel == ext.pos # "none" => ~ext.lateStart

\* the run of the worker is over: DK_FINISHED was posted
RunOver == ext.pos = "idle" /\ ext.gen > 0

\* C37: a run posts DK_FINISHED once, when it is over; done + failed of the
\* message is the number of tasks started, at most total, and total when the run
\* was not cancelled; while the run is on, every task started but the one in
\* progress is counted, as done or as failed
C37_FinishedOnceCountsEveryTask ==
  ext.pos # "none" =>
    /\ ext.finished = (IF RunOver THEN 1 ELSE 0)
    /\ ext.running <=> ext.pos \notin {"idle"}
    /\ ext.started <= ext.total
    /\ ext.done + ext.failed = ext.started - (IF ext.running THEN 1 ELSE 0)
    /\ RunOver =>
         /\ ext.finishedMsg.done + ext.finishedMsg.failed = ext.started
         /\ ext.finishedMsg.done = ext.done /\ ext.finishedMsg.failed = ext.failed
         /\ ~ext.finishedMsg.cancelled => ext.started = ext.total

\* C37 witness: a run is over that was not cancelled, in which a task failed
\* and a later one was done
C37_FailedThenDone ==
  /\ ext.pos = "idle"
  /\ ext.gen > 0
  /\ ~ext.finishedMsg.cancelled
  /\ ext.finishedMsg.failed > 0
  /\ ext.last.how = "done"
  /\ ext.total = MaxAlbums

====
